---- MODULE Spec2Model ----
(***************************************************************************)
(* A model of the PostGIS persistence API of datacube-core                 *)
(* (datacube/drivers/postgis/_api.py): the dataset, location and lineage   *)
(* tables, the mutations PostgisDbAPI performs on them one SQL statement   *)
(* at a time, and the queries it compiles.                                 *)
(* With it, reproject_and_fuse of datacube/storage/_reproject.py, which    *)
(* fuses the pixels of several sources into one destination array.         *)
(***************************************************************************)
EXTENDS Integers, Sequences, FiniteSets, TLC

(***************************************************************************)
(* Bounds of the model.                                                    *)
(***************************************************************************)
MaxClock == 1          \* now() takes the values 0..MaxClock
MaxLocationId == 2     \* SpecLocation inserts at most this many location rows
MaxSpecLocationId == 1 \* Spec, SpecSearch and SpecArchive insert at most this many location rows
MaxDuplicateLocationId == 4 \* SpecDuplicates inserts at most this many location rows
NumConnections == 2    \* connections racing in SpecRace
MaxSources == 3        \* reproject_and_fuse is called with at most this many sources

DatasetIds == {"d1", "d2"}
ProductIds == {1, 2}
Classifiers == {"src"}
Connections == 1..NumConnections

\* Metadata documents: JSON objects as records; time is a range <<lower, upper>>.
DocA == [format |-> "GeoTIFF", time |-> <<0, 0>>]
DocB == [format |-> "NetCDF", label |-> "x", time |-> <<1, 2>>]
Docs == {DocA, DocB}

\* URIs as character sequences: "f:a", "f:a#:b" and "ab" (no scheme separator).
UriFA == <<"f", ":", "a">>
UriFAB == <<"f", ":", "a", "#", ":", "b">>
UriNoScheme == <<"a", "b">>
Uris == {UriFA, UriFAB, UriNoScheme}

\* The URIs locations are looked up by: those above and "f:a#".
UriFAHash == <<"f", ":", "a", "#">>
LookupUris == Uris \cup {UriFAHash}

\* Search expressions (field = value) and the tuples of them the queries are given.
Expressions ==
  {[field |-> "id", value |-> "d1"],
   [field |-> "product", value |-> "ls8"],
   [field |-> "format", value |-> "GeoTIFF"],
   [field |-> "label", value |-> "x"],
   [field |-> "uri", value |-> UriFA]}
ExpressionTuples ==
  {<<>>} \cup {<<e>> : e \in Expressions}
         \cup {<<[field |-> "format", value |-> "GeoTIFF"], [field |-> "uri", value |-> UriFA]>>,
                <<[field |-> "product", value |-> "ls8"], [field |-> "label", value |-> "x"]>>}
\* Tuples of fields to select or to match duplicates on.
FieldTuples == {<<>>, <<"format">>, <<"uri">>, <<"product", "label">>}
\* Partial documents to search by containment.
MetadataInputs == {[format |-> "GeoTIFF"], [label |-> "x"], DocB}
\* Histogram inputs: start, end and period.
HistogramInputs == {<<0, 3, 1>>, <<0, 2, 2>>, <<1, 3, 1>>}
\* More of them: an empty range, and periods that do not divide end - start.
PeriodInputs == HistogramInputs \cup {<<1, 1, 1>>, <<0, 3, 2>>, <<0, 1, 2>>, <<1, 2, 3>>}

\* Product metadata documents, and the Product table every store starts with.
ProductDocs == {[format |-> "GeoTIFF"], [format |-> "NetCDF", label |-> "x"]}
ProductTable ==
  [p \in ProductIds |->
     [name |-> IF p = 1 THEN "ls8" ELSE "s2",
      metadata_type_ref |-> p,
      metadata |-> [format |-> "GeoTIFF"],
      definition |-> [metadata |-> [format |-> "GeoTIFF"]]]]

\* reproject_and_fuse: the pixels of the destination array, the nodata values
\* tried (a number and NaN), and the sources: the region of the destination a
\* source covers (roi), the pixels of it where the source has data (valid), and
\* whether opening the source fails (broken).
Pixels == {"p1", "p2"}
NodataValues == {"0", "nan"}
DataSources ==
  {s \in [roi : SUBSET Pixels, valid : SUBSET Pixels, broken : BOOLEAN] :
     /\ s.valid \subseteq s.roi
     /\ s.broken => s.roi = {}}
DataSourceLists == UNION {[1..n -> DataSources] : n \in 0..MaxSources}

\* Search-field names a metadata type definition may declare.
SearchFieldSets == {{"format", "label"}, {"id", "format"}}

\* The MetadataType table every store starts with.
MetadataTypeIds == {1, 2}
MetadataTypeTable ==
  [t \in MetadataTypeIds |->
     [name |-> IF t = 1 THEN "eo" ELSE "eo3",
      definition |-> [search_fields |-> {"format", "label"}]]]

\* SQL NULL for a nullable timestamp; a set timestamp t is <<t>>.
NULL == <<>>

VARIABLES
  dataset,    \* Dataset table: dataset id -> row (a partial function)
  location,   \* DatasetLocation table: a set of rows
  source,     \* DatasetSource table: a set of lineage edges
  product,    \* Product table: product id -> row
  metadata_type, \* MetadataType table: metadata type id -> row
  clock,      \* the value now() returns
  next_id,    \* the next serial id of a DatasetLocation row
  conn,       \* per connection: the call in progress or last completed
  in_transaction, \* per connection: whether a transaction is open on it
  builder,    \* the check_dynamic_fields invocations of the last schema update
  executed,   \* the queries the last search call executed on its connection
  datasources,          \* reproject_and_fuse: the sources to read, in list order
  dst_nodata,           \* reproject_and_fuse: the destination's nodata value
  skip_broken_datasets, \* reproject_and_fuse: whether a failing source is skipped
  destination,          \* reproject_and_fuse: the array to fill, pixel -> value
  buffer_,              \* reproject_and_fuse: the scratch array of the fusing loop
  position              \* reproject_and_fuse: where the call is, and the loop index

\* The variables of reproject_and_fuse.
raster == <<datasources, dst_nodata, skip_broken_datasets, destination, buffer_, position>>

vars == <<dataset, location, source, product, metadata_type, clock, next_id, conn, in_transaction, builder,
          executed, raster>>

Bool(b) == IF b THEN "true" ELSE "false"

\* A connection's record once handler op has returned ret (or raised it).
Idle(op, ret) == [op |-> op, d |-> "none", arg |-> <<>>, pc |-> "idle", ret |-> ret]
\* A connection's record while a call is in progress at statement pc.
InCall(op, d, arg, pc) == [op |-> op, d |-> d, arg |-> arg, pc |-> pc, ret |-> "none"]

(***************************************************************************)
(* _split_uri: scheme and remainder, split at the first ':'.               *)
(***************************************************************************)
\* A faulty split: at the last ':' (uri.rfind).
find_colon_last(uri) ==
  IF \E i \in 1..Len(uri) : uri[i] = ":"
  THEN CHOOSE i \in 1..Len(uri) : uri[i] = ":" /\ \A j \in (i + 1)..Len(uri) : uri[j] # ":"
  ELSE 0

\* uri.find(':'), 1-based; 0 when there is none (Python's -1).
find_colon(uri) ==
  IF \E i \in 1..Len(uri) : uri[i] = ":"
  THEN CHOOSE i \in 1..Len(uri) : uri[i] = ":" /\ \A j \in 1..(i - 1) : uri[j] # ":"
  ELSE 0

\* "ValueError" when idx < 0, else <<uri[:idx], uri[idx+1:]>>.
split_uri(uri) ==
  LET idx == find_colon(uri) IN
  IF idx = 0 THEN "ValueError"
  ELSE <<SubSeq(uri, 1, idx - 1), SubSeq(uri, idx + 1, Len(uri))>>

has_scheme(uri) == find_colon(uri) # 0

\* DatasetLocation.uri: the column property uri_scheme || ':' || uri_body.
location_uri(l) == l.uri_scheme \o <<":">> \o l.uri_body

(***************************************************************************)
(* Referential constraints of the schema: a location's dataset_ref and an  *)
(* edge's dataset_ref and source_dataset_ref name a Dataset row.           *)
(***************************************************************************)
referenced(d) ==
  \/ \E l \in location : l.dataset_ref = d
  \/ \E e \in source : e.dataset_ref = d \/ e.source_dataset_ref = d

(***************************************************************************)
(* The statements of the dataset mutations, each with the table it leaves  *)
(* and its affected-row count.                                             *)
(***************************************************************************)
\* A faulty insert: ON CONFLICT (id) DO UPDATE, overwriting the existing row.
insert_dataset_stmt_upsert(d, p, doc) ==
  [dataset |-> [x \in DOMAIN dataset \cup {d} |->
                  IF x = d THEN [product_ref |-> p,
                                 metadata_type_ref |-> product[p].metadata_type_ref,
                                 metadata_doc |-> doc,
                                 archived |-> NULL]
                  ELSE dataset[x]],
   rowcount |-> 1]

\* INSERT INTO dataset ... ON CONFLICT (id) DO NOTHING
insert_dataset_stmt(d, p, doc) ==
  IF d \in DOMAIN dataset
  THEN [dataset |-> dataset, rowcount |-> 0]
  ELSE [dataset |-> dataset @@ (d :> [product_ref |-> p,
                                      metadata_type_ref |-> product[p].metadata_type_ref,
                                      metadata_doc |-> doc,
                                      archived |-> NULL]),
        rowcount |-> 1]

\* A faulty update: WHERE id = d only, whatever the product.
update_dataset_stmt_any_product(d, p, doc) ==
  IF d \in DOMAIN dataset
  THEN [dataset |-> [dataset EXCEPT ![d].metadata_doc = doc], rowcount |-> 1]
  ELSE [dataset |-> dataset, rowcount |-> 0]

\* UPDATE dataset SET metadata = doc WHERE id = d AND product_ref = p
update_dataset_stmt(d, p, doc) ==
  IF d \in DOMAIN dataset /\ dataset[d].product_ref = p
  THEN [dataset |-> [dataset EXCEPT ![d].metadata_doc = doc], rowcount |-> 1]
  ELSE [dataset |-> dataset, rowcount |-> 0]

\* A faulty archive: the WHERE clause lacks archived IS NULL.
archive_dataset_stmt_unguarded(d) ==
  IF d \in DOMAIN dataset
  THEN [dataset |-> [dataset EXCEPT ![d].archived = <<clock>>], rowcount |-> 1]
  ELSE [dataset |-> dataset, rowcount |-> 0]

\* UPDATE dataset SET archived = now() WHERE id = d AND archived IS NULL
archive_dataset_stmt(d) ==
  IF d \in DOMAIN dataset /\ dataset[d].archived = NULL
  THEN [dataset |-> [dataset EXCEPT ![d].archived = <<clock>>], rowcount |-> 1]
  ELSE [dataset |-> dataset, rowcount |-> 0]

\* UPDATE dataset SET archived = NULL WHERE id = d
restore_dataset_stmt(d) ==
  IF d \in DOMAIN dataset
  THEN [dataset |-> [dataset EXCEPT ![d].archived = NULL], rowcount |-> 1]
  ELSE [dataset |-> dataset, rowcount |-> 0]

\* A faulty insert: ON CONFLICT DO UPDATE SET archived = NULL.
insert_dataset_location_stmt_restoring(d, scheme, body) ==
  LET hit == {l \in location : l.dataset_ref = d /\ l.uri_scheme = scheme /\ l.uri_body = body}
  IN IF hit # {}
     THEN [location |-> (location \ hit) \cup {[l EXCEPT !.archived = NULL] : l \in hit},
           rowcount |-> 1, error |-> FALSE]
     ELSE IF d \notin DOMAIN dataset
     THEN [location |-> location, rowcount |-> 0, error |-> TRUE]
     ELSE [location |-> location \cup {[id |-> next_id, dataset_ref |-> d,
                                        uri_scheme |-> scheme, uri_body |-> body,
                                        added |-> clock, archived |-> NULL]},
           rowcount |-> 1, error |-> FALSE]

\* INSERT INTO dataset_location ... ON CONFLICT (uri_scheme, uri_body, dataset_ref)
\* DO NOTHING; added defaults to now(), archived to NULL, id to the next serial.
insert_dataset_location_stmt(d, scheme, body) ==
  IF \E l \in location : l.dataset_ref = d /\ l.uri_scheme = scheme /\ l.uri_body = body
  THEN [location |-> location, rowcount |-> 0, error |-> FALSE]
  ELSE IF d \notin DOMAIN dataset
  THEN [location |-> location, rowcount |-> 0, error |-> TRUE]
  ELSE [location |-> location \cup {[id |-> next_id, dataset_ref |-> d,
                                     uri_scheme |-> scheme, uri_body |-> body,
                                     added |-> clock, archived |-> NULL]},
        rowcount |-> 1, error |-> FALSE]

\* DELETE FROM dataset_location WHERE dataset_ref = d AND uri_scheme = .. AND uri_body = ..
remove_location_stmt(d, scheme, body) ==
  LET hit == {l \in location : l.dataset_ref = d /\ l.uri_scheme = scheme /\ l.uri_body = body}
  IN [location |-> location \ hit, rowcount |-> Cardinality(hit)]

\* A faulty archive: the timestamp written is that of the first reading of the
\* clock, not now().
archive_location_stmt_stale(d, scheme, body) ==
  LET hit == {l \in location : /\ l.dataset_ref = d /\ l.uri_scheme = scheme
                               /\ l.uri_body = body /\ l.archived = NULL}
  IN [location |-> (location \ hit) \cup {[l EXCEPT !.archived = <<0>>] : l \in hit},
      rowcount |-> Cardinality(hit)]

\* A faulty archive: the WHERE clause lacks archived IS NULL.
archive_location_stmt_unguarded(d, scheme, body) ==
  LET hit == {l \in location : l.dataset_ref = d /\ l.uri_scheme = scheme /\ l.uri_body = body}
  IN [location |-> (location \ hit) \cup {[l EXCEPT !.archived = <<clock>>] : l \in hit},
      rowcount |-> Cardinality(hit)]

\* UPDATE dataset_location SET archived = now() WHERE <key> AND archived IS NULL
archive_location_stmt(d, scheme, body) ==
  LET hit == {l \in location : /\ l.dataset_ref = d /\ l.uri_scheme = scheme
                               /\ l.uri_body = body /\ l.archived = NULL}
  IN [location |-> (location \ hit) \cup {[l EXCEPT !.archived = <<clock>>] : l \in hit},
      rowcount |-> Cardinality(hit)]

\* A faulty restore: the WHERE clause lacks archived IS NOT NULL.
restore_location_stmt_unguarded(d, scheme, body) ==
  LET hit == {l \in location : l.dataset_ref = d /\ l.uri_scheme = scheme /\ l.uri_body = body}
  IN [location |-> (location \ hit) \cup {[l EXCEPT !.archived = NULL] : l \in hit},
      rowcount |-> Cardinality(hit)]

\* UPDATE dataset_location SET archived = NULL WHERE <key> AND archived IS NOT NULL
restore_location_stmt(d, scheme, body) ==
  LET hit == {l \in location : /\ l.dataset_ref = d /\ l.uri_scheme = scheme
                               /\ l.uri_body = body /\ l.archived # NULL}
  IN [location |-> (location \ hit) \cup {[l EXCEPT !.archived = NULL] : l \in hit},
      rowcount |-> Cardinality(hit)]

\* INSERT INTO dataset_source ... ON CONFLICT (classifier, dataset_ref) DO NOTHING
insert_dataset_source_stmt(cl, d, s) ==
  IF \E e \in source : e.classifier = cl /\ e.dataset_ref = d
  THEN [source |-> source, rowcount |-> 0, error |-> FALSE]
  ELSE IF d \notin DOMAIN dataset \/ s \notin DOMAIN dataset
  THEN [source |-> source, rowcount |-> 0, error |-> TRUE]
  ELSE [source |-> source \cup {[classifier |-> cl, dataset_ref |-> d,
                                 source_dataset_ref |-> s]},
        rowcount |-> 1, error |-> FALSE]

\* A faulty delete_dataset: the locations of d are not deleted.
delete_locations_stmt_skipped(d) == location

\* delete_dataset, first statement: DELETE FROM dataset_location WHERE dataset_ref = d
delete_locations_stmt(d) == {l \in location : l.dataset_ref # d}

\* delete_dataset, second statement: DELETE FROM dataset_source WHERE dataset_ref = d
delete_sources_stmt(d) == {e \in source : e.dataset_ref # d}

\* delete_dataset, third statement: DELETE FROM dataset WHERE id = d
delete_row_stmt(d) ==
  IF d \notin DOMAIN dataset
  THEN [dataset |-> dataset, rowcount |-> 0, error |-> FALSE]
  ELSE IF referenced(d)
  THEN [dataset |-> dataset, rowcount |-> 0, error |-> TRUE]
  ELSE [dataset |-> [x \in DOMAIN dataset \ {d} |-> dataset[x]],
        rowcount |-> 1, error |-> FALSE]

(***************************************************************************)
(* Queries: the rows each SELECT of the API returns in the current store.  *)
(***************************************************************************)
location_row(id) == CHOOSE l \in location : l.id = id

\* ORDER BY added DESC, id DESC
newer(a, b) == a.added > b.added \/ (a.added = b.added /\ a.id > b.id)

newest_first(S) ==
  CHOOSE seq \in [1..Cardinality(S) -> S] :
    \A i, j \in 1..Cardinality(S) : i < j => newer(seq[i], seq[j])

\* A faulty sub-select: the uris are ordered oldest first.
active_uris_oldest_first(d) ==
  LET rows == newest_first({l \in location : l.dataset_ref = d /\ l.archived = NULL})
  IN [i \in 1..Len(rows) |-> location_uri(rows[Len(rows) + 1 - i])]

\* The uris sub-select of _dataset_select_fields: all active URIs, newest first.
active_uris(d) ==
  LET rows == newest_first({l \in location : l.dataset_ref = d /\ l.archived = NULL})
  IN [i \in 1..Len(rows) |-> location_uri(rows[i])]

\* _dataset_select_fields: the Dataset row and its uris array.
dataset_select_fields(d) ==
  [id |-> d,
   product_ref |-> dataset[d].product_ref,
   metadata_type_ref |-> dataset[d].metadata_type_ref,
   metadata_doc |-> dataset[d].metadata_doc,
   archived |-> dataset[d].archived,
   uris |-> active_uris(d)]

\* SELECT id FROM dataset WHERE id = d
contains_dataset(d) == d \in DOMAIN dataset

\* A faulty lookup: archived rows are filtered out.
get_dataset_active_only(d) ==
  {dataset_select_fields(x) : x \in {y \in DOMAIN dataset : y = d /\ dataset[y].archived = NULL}}

\* SELECT <dataset fields> FROM dataset WHERE id = d: the first row or none.
get_dataset(d) == {dataset_select_fields(x) : x \in {y \in DOMAIN dataset : y = d}}

\* SELECT <dataset fields> FROM dataset WHERE id IN ids
get_datasets(ids) == {dataset_select_fields(x) : x \in {y \in DOMAIN dataset : y \in ids}}

\* JSONB containment: metadata_doc @> metadata
doc_contains(doc, metadata) ==
  \A k \in DOMAIN metadata : k \in DOMAIN doc /\ doc[k] = metadata[k]

\* SELECT <dataset fields> FROM dataset WHERE metadata @> metadata
search_datasets_by_metadata(metadata) ==
  {dataset_select_fields(x) :
     x \in {y \in DOMAIN dataset : doc_contains(dataset[y].metadata_doc, metadata)}}

starts_with(body, prefix) ==
  Len(prefix) <= Len(body) /\ SubSeq(body, 1, Len(prefix)) = prefix

\* get_datasets_for_location's default mode: exact when the body holds a '#'.
location_mode(body) == IF \E i \in 1..Len(body) : body[i] = "#" THEN "exact" ELSE "prefix"

\* SELECT <dataset fields> FROM dataset JOIN dataset_location WHERE scheme and body
\* match: one row per (dataset, matching location), as the pair of their ids.
\* "ValueError" for a URI without scheme or a mode other than exact and prefix.
get_datasets_for_location(uri, mode) ==
  IF ~has_scheme(uri) \/ mode \notin {"None", "exact", "prefix"} THEN "ValueError"
  ELSE
  LET su == split_uri(uri)
      m == IF mode = "None" THEN location_mode(su[2]) ELSE mode
  IN {[d |-> l.dataset_ref, l |-> l.id] :
        l \in {x \in location :
                 /\ x.dataset_ref \in DOMAIN dataset
                 /\ x.uri_scheme = su[1]
                 /\ IF m = "exact" THEN x.uri_body = su[2]
                                   ELSE starts_with(x.uri_body, su[2])}}

\* A faulty get_locations: the archived rows are listed too.
get_locations_unfiltered(d) ==
  LET rows == newest_first({l \in location : l.dataset_ref = d})
  IN [i \in 1..Len(rows) |-> location_uri(rows[i])]

\* get_locations: SELECT uri WHERE dataset_ref = d AND archived IS NULL
\* ORDER BY added DESC, id DESC.
get_locations(d) ==
  LET rows == newest_first({l \in location : l.dataset_ref = d /\ l.archived = NULL})
  IN [i \in 1..Len(rows) |-> location_uri(rows[i])]

\* get_archived_locations: SELECT uri, archived WHERE dataset_ref = d AND archived
\* IS NOT NULL ORDER BY added DESC. Rows of equal added come in any order: the
\* set of the sequences the store may return.
get_archived_locations(d) ==
  LET S == {l \in location : l.dataset_ref = d /\ l.archived # NULL}
      orders == {seq \in [1..Cardinality(S) -> S] :
                   /\ \A i, j \in 1..Cardinality(S) : i # j => seq[i] # seq[j]
                   /\ \A i, j \in 1..Cardinality(S) : i < j => seq[i].added >= seq[j].added}
  IN {[i \in 1..Cardinality(S) |-> <<location_uri(seq[i]), seq[i].archived[1]>>] : seq \in orders}

\* The table a field's column lives in (get_native_fields, get_dataset_fields);
\* "lineage" stands for a field a caller builds on a column of DatasetSource,
\* a table outside sort_order_hack.
required_alchemy_table(field) ==
  CASE field = "uri" -> "dataset_location"
    [] field = "product" -> "product"
    [] field = "metadata_type" -> "metadata_type"
    [] field = "lineage" -> "dataset_source"
    [] OTHER -> "dataset"

\* sort_order_hack
sort_order_hack == <<"dataset_location", "dataset", "product", "metadata_type">>

\* A faulty join resolver: the location table is always joined.
join_tables_always_location(expressions, fields) ==
  LET needed == ({required_alchemy_table(expressions[i].field) : i \in 1..Len(expressions)}
                 \cup {required_alchemy_table(fields[i]) : i \in 1..Len(fields)}
                 \cup {"dataset_location"})
                \ {"dataset"}
      wanted(t) == t \in needed
  IN SelectSeq(sort_order_hack, wanted)

\* A faulty join resolver: the selected fields are not looked at.
join_tables_expressions_only(expressions, fields) ==
  LET needed == {required_alchemy_table(expressions[i].field) : i \in 1..Len(expressions)}
                \ {"dataset"}
      wanted(t) == t \in needed
  IN SelectSeq(sort_order_hack, wanted)

\* A faulty join resolver: the tables come in the reverse of the fixed order.
join_tables_reversed(expressions, fields) ==
  LET needed == ({required_alchemy_table(expressions[i].field) : i \in 1..Len(expressions)}
                 \cup {required_alchemy_table(fields[i]) : i \in 1..Len(fields)})
                \ {"dataset"}
      wanted(t) == t \in needed
      reversed == [i \in 1..Len(sort_order_hack) |->
                     sort_order_hack[Len(sort_order_hack) + 1 - i]]
  IN SelectSeq(reversed, wanted)

\* _join_tables(Dataset, expressions, fields): the tables to join, in the fixed order.
join_tables(expressions, fields) ==
  LET needed == ({required_alchemy_table(expressions[i].field) : i \in 1..Len(expressions)}
                 \cup {required_alchemy_table(fields[i]) : i \in 1..Len(fields)})
                \ {"dataset"}
      wanted(t) == t \in needed
  IN SelectSeq(sort_order_hack, wanted)

seq_set(s) == {s[i] : i \in 1..Len(s)}

\* The rows of FROM dataset with the given tables: joined on their foreign keys
\* (query.join), or as the plain product of the tables (no join clause).
from_rows(tables, joined) ==
  {r \in {[d |-> d, l |-> l, p |-> p] :
            d \in DOMAIN dataset,
            l \in IF "dataset_location" \in tables THEN {x.id : x \in location} ELSE {0},
            p \in IF "product" \in tables THEN DOMAIN product ELSE {0}} :
     joined => /\ r.l # 0 => location_row(r.l).dataset_ref = r.d
               /\ r.p # 0 => dataset[r.d].product_ref = r.p}

\* Whether the field has a value in row r (a document field may be absent).
field_present(field, r) ==
  CASE field = "format" -> "format" \in DOMAIN dataset[r.d].metadata_doc
    [] field = "label" -> "label" \in DOMAIN dataset[r.d].metadata_doc
    [] OTHER -> TRUE

\* The field's alchemy_expression evaluated in row r.
field_value(field, r) ==
  CASE field = "id" -> r.d
    [] field = "product" -> product[r.p].name
    [] field = "uri" -> location_uri(location_row(r.l))
    [] field = "format" -> dataset[r.d].metadata_doc.format
    [] field = "label" -> dataset[r.d].metadata_doc.label

\* expression.alchemy_expression: field = value (NULL = value is not true).
expression_holds(e, r) == field_present(e.field, r) /\ field_value(e.field, r) = e.value

\* A faulty filter: the archived IS NULL predicate is left out.
where_expr_no_archived(expressions, r) ==
  \A i \in 1..Len(expressions) : expression_holds(expressions[i], r)

\* where_expr = and_(Dataset.archived == None, *raw_expressions)
where_expr(expressions, r) ==
  /\ dataset[r.d].archived = NULL
  /\ \A i \in 1..Len(expressions) : expression_holds(expressions[i], r)

\* A faulty search: SELECT DISTINCT ON (dataset.id), one row per dataset.
search_datasets_query_distinct(expressions, select_fields) ==
  LET rows == {r \in from_rows(seq_set(join_tables(expressions, select_fields)), TRUE) :
                 where_expr(expressions, r)}
  IN {r \in rows : r = CHOOSE x \in rows : x.d = r.d}

\* search_datasets_query with no limit: the joined rows that pass the filter.
search_datasets_query(expressions, select_fields) ==
  {r \in from_rows(seq_set(join_tables(expressions, select_fields)), TRUE) :
     where_expr(expressions, r)}

\* search_datasets: the results the query may return under limit (<<>> is None).
search_datasets(expressions, select_fields, limit) ==
  LET rows == search_datasets_query(expressions, select_fields) IN
  IF limit = <<>> \/ limit[1] >= Cardinality(rows) THEN {rows}
  ELSE {s \in SUBSET rows : Cardinality(s) = limit[1]}

\* count_datasets: SELECT count(dataset.id) WHERE archived IS NULL AND <expressions>,
\* over dataset and whatever tables the expressions name, with no join clause.
count_datasets_rows(expressions) ==
  {r \in from_rows({required_alchemy_table(expressions[i].field) : i \in 1..Len(expressions)},
                   FALSE) :
     where_expr(expressions, r)}

count_datasets(expressions) == Cardinality(count_datasets_rows(expressions))

\* A faulty series: it runs one period past end.
generate_series_past_end(start, end, period) ==
  [i \in 1..((end - start) \div period + 2) |-> start + (i - 1) * period]

\* generate_series(start, end, period): start, start + period, ... while <= end.
generate_series(start, end, period) ==
  [i \in 1..((end - start) \div period + 1) |-> start + (i - 1) * period]

\* A faulty time_ranges: the row with the infinite upper bound is kept (its
\* upper bound is put beyond every instant of the model).
time_ranges_with_infinite(start, end, period) ==
  LET st == IF start <= end THEN generate_series(start, end, period) ELSE <<>>
  IN [i \in 1..Len(st) |-> <<st[i], IF i < Len(st) THEN st[i + 1] ELSE st[i] + 1000>>]

\* time_ranges: tstzrange(start_time, lead(start_time)) without the last row, whose
\* upper bound is infinite.
time_ranges(start, end, period) ==
  LET st == IF start <= end THEN generate_series(start, end, period) ELSE <<>>
  IN [i \in 1..(Len(st) - 1) |-> <<st[i], st[i + 1]>>]

\* The document's time range [lower, upper] overlaps the bucket [lo, hi).
overlaps(range, bucket) == range[1] < bucket[2] /\ bucket[1] <= range[2]

\* The rows one bucket counts: joined per _join_tables(Dataset, expressions).
bucket_rows(bucket, expressions) ==
  {r \in from_rows(seq_set(join_tables(expressions, <<>>)), TRUE) :
     /\ overlaps(dataset[r.d].metadata_doc.time, bucket)
     /\ where_expr(expressions, r)}

\* count_datasets_through_time: the sequence of (bucket, count).
count_datasets_through_time(start, end, period, expressions) ==
  LET tr == time_ranges(start, end, period)
  IN [i \in 1..Len(tr) |-> <<tr[i], Cardinality(bucket_rows(tr[i], expressions))>>]

\* The group key of a row: the tuple of the match fields' values (NULL as <<>>).
group_key(match_fields, r) ==
  [i \in 1..Len(match_fields) |->
     IF field_present(match_fields[i], r) THEN <<field_value(match_fields[i], r)>> ELSE <<>>]

\* A faulty get_duplicates: the HAVING clause is missing.
get_duplicates_no_having(match_fields, expressions) ==
  LET rows == {r \in from_rows(seq_set(join_tables(expressions, match_fields)), TRUE) :
                 where_expr(expressions, r)}
      keys == {group_key(match_fields, r) : r \in rows}
      group(k) == {r \in rows : group_key(match_fields, r) = k}
  IN {[key |-> k, rows |-> group(k)] : k \in keys}

\* get_duplicates: GROUP BY the match fields HAVING count(dataset.id) > 1; each
\* group with its key and the rows array_agg(dataset.id) aggregates.
get_duplicates(match_fields, expressions) ==
  LET rows == {r \in from_rows(seq_set(join_tables(expressions, match_fields)), TRUE) :
                 where_expr(expressions, r)}
      keys == {group_key(match_fields, r) : r \in rows}
      group(k) == {r \in rows : group_key(match_fields, r) = k}
  IN {[key |-> k, rows |-> group(k)] : k \in {x \in keys : Cardinality(group(x)) > 1}}

(***************************************************************************)
(* The handlers of PostgisDbAPI, one action per handler; a handler of      *)
(* several statements takes one step per statement.                        *)
(***************************************************************************)
insert_dataset(c, d, p, doc) ==
  /\ conn[c].pc = "idle"
  /\ LET r == insert_dataset_stmt(d, p, doc) IN
       /\ dataset' = r.dataset
       /\ conn' = [conn EXCEPT ![c] = Idle("insert_dataset", Bool(r.rowcount > 0))]
  /\ UNCHANGED <<raster, location, source, product, metadata_type, clock, next_id, in_transaction, builder, executed>>

update_dataset(c, d, p, doc) ==
  /\ conn[c].pc = "idle"
  /\ LET r == update_dataset_stmt(d, p, doc) IN
       /\ dataset' = r.dataset
       /\ conn' = [conn EXCEPT ![c] = Idle("update_dataset", Bool(r.rowcount > 0))]
  /\ UNCHANGED <<raster, location, source, product, metadata_type, clock, next_id, in_transaction, builder, executed>>

\* A faulty archive_dataset: the dataset's active locations are archived with it.
archive_dataset_with_locations(c, d) ==
  /\ conn[c].pc = "idle"
  /\ LET r == archive_dataset_stmt(d) IN
       /\ dataset' = r.dataset
       /\ location' = IF r.rowcount > 0
                      THEN {IF l.dataset_ref = d /\ l.archived = NULL
                            THEN [l EXCEPT !.archived = <<clock>>] ELSE l : l \in location}
                      ELSE location
       /\ conn' = [conn EXCEPT ![c] = Idle("archive_dataset", Bool(r.rowcount > 0))]
  /\ UNCHANGED <<raster, source, product, metadata_type, clock, next_id, in_transaction, builder, executed>>

archive_dataset(c, d) ==
  /\ conn[c].pc = "idle"
  /\ LET r == archive_dataset_stmt(d) IN
       /\ dataset' = r.dataset
       /\ conn' = [conn EXCEPT ![c] = Idle("archive_dataset", Bool(r.rowcount > 0))]
  /\ UNCHANGED <<raster, location, source, product, metadata_type, clock, next_id, in_transaction, builder, executed>>

restore_dataset(c, d) ==
  /\ conn[c].pc = "idle"
  /\ LET r == restore_dataset_stmt(d) IN
       /\ dataset' = r.dataset
       /\ conn' = [conn EXCEPT ![c] = Idle("restore_dataset", Bool(r.rowcount > 0))]
  /\ UNCHANGED <<raster, location, source, product, metadata_type, clock, next_id, in_transaction, builder, executed>>

insert_dataset_location(c, d, uri) ==
  /\ conn[c].pc = "idle"
  /\ IF ~has_scheme(uri)
     THEN /\ conn' = [conn EXCEPT ![c] = Idle("insert_dataset_location", "ValueError")]
          /\ UNCHANGED <<location, next_id>>
     ELSE LET su == split_uri(uri)
              r == insert_dataset_location_stmt(d, su[1], su[2]) IN
          /\ location' = r.location
          /\ next_id' = IF r.rowcount > 0 THEN next_id + 1 ELSE next_id
          /\ conn' = [conn EXCEPT ![c] = Idle("insert_dataset_location", IF r.error THEN "IntegrityError" ELSE Bool(r.rowcount > 0))]
  /\ UNCHANGED <<raster, dataset, source, product, metadata_type, clock, in_transaction, builder, executed>>

remove_location(c, d, uri) ==
  /\ conn[c].pc = "idle"
  /\ IF ~has_scheme(uri)
     THEN /\ conn' = [conn EXCEPT ![c] = Idle("remove_location", "ValueError")]
          /\ UNCHANGED location
     ELSE LET su == split_uri(uri)
              r == remove_location_stmt(d, su[1], su[2]) IN
          /\ location' = r.location
          /\ conn' = [conn EXCEPT ![c] = Idle("remove_location", Bool(r.rowcount > 0))]
  /\ UNCHANGED <<raster, dataset, source, product, metadata_type, clock, next_id, in_transaction, builder, executed>>

archive_location(c, d, uri) ==
  /\ conn[c].pc = "idle"
  /\ IF ~has_scheme(uri)
     THEN /\ conn' = [conn EXCEPT ![c] = Idle("archive_location", "ValueError")]
          /\ UNCHANGED location
     ELSE LET su == split_uri(uri)
              r == archive_location_stmt(d, su[1], su[2]) IN
          /\ location' = r.location
          /\ conn' = [conn EXCEPT ![c] = Idle("archive_location", Bool(r.rowcount > 0))]
  /\ UNCHANGED <<raster, dataset, source, product, metadata_type, clock, next_id, in_transaction, builder, executed>>

restore_location(c, d, uri) ==
  /\ conn[c].pc = "idle"
  /\ IF ~has_scheme(uri)
     THEN /\ conn' = [conn EXCEPT ![c] = Idle("restore_location", "ValueError")]
          /\ UNCHANGED location
     ELSE LET su == split_uri(uri)
              r == restore_location_stmt(d, su[1], su[2]) IN
          /\ location' = r.location
          /\ conn' = [conn EXCEPT ![c] = Idle("restore_location", Bool(r.rowcount > 0))]
  /\ UNCHANGED <<raster, dataset, source, product, metadata_type, clock, next_id, in_transaction, builder, executed>>

insert_dataset_source(c, cl, d, s) ==
  /\ conn[c].pc = "idle"
  /\ LET r == insert_dataset_source_stmt(cl, d, s) IN
       /\ source' = r.source
       /\ conn' = [conn EXCEPT ![c] = Idle("insert_dataset_source", IF r.error THEN "IntegrityError" ELSE Bool(r.rowcount > 0))]
  /\ UNCHANGED <<raster, dataset, location, product, metadata_type, clock, next_id, in_transaction, builder, executed>>

\* delete_dataset: the call and its first statement (the locations of d).
delete_dataset(c, d) ==
  /\ conn[c].pc = "idle"
  /\ location' = delete_locations_stmt(d)
  /\ conn' = [conn EXCEPT ![c] = InCall("delete_dataset", d, <<>>, "delete_sources")]
  /\ UNCHANGED <<raster, dataset, source, product, metadata_type, clock, next_id, in_transaction, builder, executed>>

\* delete_dataset, second statement (the lineage edges of d).
delete_dataset_sources(c) ==
  /\ conn[c].pc = "delete_sources"
  /\ source' = delete_sources_stmt(conn[c].d)
  /\ conn' = [conn EXCEPT ![c].pc = "delete_row"]
  /\ UNCHANGED <<raster, dataset, location, product, metadata_type, clock, next_id, in_transaction, builder, executed>>

\* delete_dataset, third statement (the dataset row) and the return.
delete_dataset_row(c) ==
  /\ conn[c].pc = "delete_row"
  /\ LET r == delete_row_stmt(conn[c].d) IN
       /\ dataset' = r.dataset
       /\ conn' = [conn EXCEPT ![c] = Idle("delete_dataset", IF r.error THEN "IntegrityError" ELSE Bool(r.rowcount > 0))]
  /\ UNCHANGED <<raster, location, source, product, metadata_type, clock, next_id, in_transaction, builder, executed>>

(***************************************************************************)
(* Schema updates: update_product and the index/view builder.              *)
(***************************************************************************)
\* hasattr(field, 'extract'): the fields read from the metadata document have an
\* extract method, the native fields (columns) have none.
has_extract(field) == field \in {"format", "label", "time"}

\* field.extract(metadata_doc): the value at the field's offset, None when absent.
extract(field, metadata_doc) ==
  IF field \in DOMAIN metadata_doc THEN <<metadata_doc[field]>> ELSE NULL

\* The exception field.extract(metadata_doc) raises, "none" when it returns. A
\* stored value the field cannot read is written "!" and the exception it makes
\* extract raise.
extract_raises(field, metadata_doc) ==
  IF field \notin DOMAIN metadata_doc THEN "none"
  ELSE CASE metadata_doc[field] = "!AttributeError" -> "AttributeError"
         [] metadata_doc[field] = "!KeyError" -> "KeyError"
         [] metadata_doc[field] = "!ValueError" -> "ValueError"
         [] metadata_doc[field] = "!TypeError" -> "TypeError"
         [] OTHER -> "none"

\* except (AttributeError, KeyError, ValueError): continue
caught(exception) == exception \in {"AttributeError", "KeyError", "ValueError"}

\* _get_active_field_names: the fields whose extraction yields a value.
get_active_field_names(fields, metadata_doc) ==
  {f \in fields : /\ has_extract(f)
                  /\ extract_raises(f, metadata_doc) = "none"
                  /\ extract(f, metadata_doc) # NULL}

\* The exceptions _get_active_field_names lets through when it is consumed.
escaping(fields, metadata_doc) ==
  {x \in {extract_raises(f, metadata_doc) : f \in {g \in fields : has_extract(g)}} :
     x # "none" /\ ~caught(x)}

\* _setup_product_fields: the arguments dynamic.check_dynamic_fields is called with.
setup_product_fields(id, name, fields, metadata_doc, rebuild_view) ==
  [name |-> name,
   dataset_filter |-> [archived |-> NULL, product_ref |-> id],
   excluded_field_names |-> get_active_field_names(fields, metadata_doc),
   fields |-> fields,
   rebuild_view |-> rebuild_view]

\* A faulty update: without the WHERE clause, every product row.
update_product_stmt_every_row(name, metadata, metadata_type_id, definition) ==
  [product |-> [p \in DOMAIN product |->
                  [product[p] EXCEPT !.metadata = metadata,
                                     !.metadata_type_ref = metadata_type_id,
                                     !.definition = definition]],
   returning |-> DOMAIN product]

\* UPDATE product SET metadata, metadata_type_ref, definition WHERE name = ..
\* RETURNING id
update_product_stmt(name, metadata, metadata_type_id, definition) ==
  LET hit == {p \in DOMAIN product : product[p].name = name}
  IN [product |-> [p \in DOMAIN product |->
                     IF p \in hit
                     THEN [product[p] EXCEPT !.metadata = metadata,
                                             !.metadata_type_ref = metadata_type_id,
                                             !.definition = definition]
                     ELSE product[p]],
      returning |-> hit]

\* A faulty update: without the WHERE clause, the datasets of every product.
update_dataset_metadata_type_stmt_every_product(prod_id, metadata_type_id) ==
  [d \in DOMAIN dataset |-> [dataset[d] EXCEPT !.metadata_type_ref = metadata_type_id]]

\* UPDATE dataset SET metadata_type_ref = .. WHERE product_ref = prod_id
update_dataset_metadata_type_stmt(prod_id, metadata_type_id) ==
  [d \in DOMAIN dataset |->
     IF dataset[d].product_ref = prod_id
     THEN [dataset[d] EXCEPT !.metadata_type_ref = metadata_type_id]
     ELSE dataset[d]]

\* A faulty check: the update goes ahead without a transaction.
must_reject_never(c, update_metadata_type) == FALSE

\* if update_metadata_type: if not self._connection.in_transaction(): raise
must_reject(c, update_metadata_type) == update_metadata_type /\ ~in_transaction[c]

\* update_product. Outside a transaction each statement is committed as it is
\* executed. res.first()[0] raises TypeError when no row was updated.
update_product(c, name, metadata, metadata_type_id, search_fields, definition,
               update_metadata_type) ==
  /\ conn[c].pc = "idle"
  /\ LET r == update_product_stmt(name, metadata, metadata_type_id, definition) IN
     IF r.returning = {}
     THEN /\ product' = r.product
          /\ UNCHANGED dataset
          /\ builder' = <<>>
          /\ conn' = [conn EXCEPT ![c] = Idle("update_product", "TypeError")]
     ELSE LET prod_id == CHOOSE p \in r.returning : TRUE IN
          IF must_reject(c, update_metadata_type)
          THEN /\ product' = r.product
               /\ UNCHANGED dataset
               /\ builder' = <<>>
               /\ conn' = [conn EXCEPT ![c] = Idle("update_product", "RuntimeError")]
          ELSE /\ product' = r.product
               /\ dataset' = IF update_metadata_type
                             THEN update_dataset_metadata_type_stmt(prod_id, metadata_type_id)
                             ELSE dataset
               /\ IF escaping(search_fields, definition.metadata) # {}
                  THEN /\ builder' = <<>>
                       /\ \E x \in escaping(search_fields, definition.metadata) :
                            conn' = [conn EXCEPT ![c] = Idle("update_product", x)]
                  ELSE /\ builder' = <<setup_product_fields(prod_id, name, search_fields,
                                                            definition.metadata, TRUE)>>
                       /\ conn' = [conn EXCEPT ![c] = Idle("update_product", ToString(prod_id))]
  /\ UNCHANGED <<raster, location, source, metadata_type, clock, next_id, in_transaction, executed>>

\* get_dataset_fields(definition): the search fields the definition declares.
get_dataset_fields(definition) == definition.search_fields

\* UPDATE metadata_type SET name, definition WHERE name = .. RETURNING id
update_metadata_type_stmt(name, definition) ==
  LET hit == {t \in DOMAIN metadata_type : metadata_type[t].name = name}
  IN [metadata_type |-> [t \in DOMAIN metadata_type |->
                           IF t \in hit
                           THEN [metadata_type[t] EXCEPT !.name = name,
                                                         !.definition = definition]
                           ELSE metadata_type[t]],
      returning |-> hit]

\* The product names in ascending order.
name_order == <<"ls8", "s2">>

\* A faulty cascade: every product, whatever its metadata type.
get_products_ignoring_metadata_type(id) ==
  LET named(n) == CHOOSE p \in DOMAIN product : product[p].name = n
  IN [i \in 1..Len(name_order) |-> named(name_order[i])]

\* _get_products_for_metadata_type: SELECT .. FROM product WHERE metadata_type_ref
\* = id ORDER BY name ASC, as the sequence of the products' ids.
get_products_for_metadata_type(id) ==
  LET named(n) == CHOOSE p \in DOMAIN product : product[p].name = n
      refers(n) == product[named(n)].metadata_type_ref = id
      names == SelectSeq(name_order, refers)
  IN [i \in 1..Len(names) |-> named(names[i])]

\* _setup_metadata_type_fields: the check_dynamic_fields invocations, one for each
\* product of the type in turn, up to the first whose extraction lets an exception
\* through.
setup_metadata_type_fields(id, fields, rebuild_views) ==
  LET ps == get_products_for_metadata_type(id)
      fails(i) == escaping(fields, product[ps[i]].definition.metadata) # {}
      n == IF \E i \in 1..Len(ps) : fails(i)
           THEN (CHOOSE i \in 1..Len(ps) : fails(i) /\ \A j \in 1..(i - 1) : ~fails(j)) - 1
           ELSE Len(ps)
  IN [calls |-> [i \in 1..n |->
                   setup_product_fields(ps[i], product[ps[i]].name, fields,
                                        product[ps[i]].definition.metadata, rebuild_views)],
      raised |-> IF n < Len(ps)
                 THEN escaping(fields, product[ps[n + 1]].definition.metadata)
                 ELSE {}]

\* update_metadata_type. res.first()[0] raises TypeError when no row was updated.
update_metadata_type(c, name, definition) ==
  /\ conn[c].pc = "idle"
  /\ LET r == update_metadata_type_stmt(name, definition) IN
     IF r.returning = {}
     THEN /\ metadata_type' = r.metadata_type
          /\ builder' = <<>>
          /\ conn' = [conn EXCEPT ![c] = Idle("update_metadata_type", "TypeError")]
     ELSE LET type_id == CHOOSE t \in r.returning : TRUE
              b == setup_metadata_type_fields(type_id, get_dataset_fields(definition), TRUE) IN
          /\ metadata_type' = r.metadata_type
          /\ builder' = b.calls
          /\ IF b.raised # {}
             THEN \E x \in b.raised :
                    conn' = [conn EXCEPT ![c] = Idle("update_metadata_type", x)]
             ELSE conn' = [conn EXCEPT ![c] = Idle("update_metadata_type", ToString(type_id))]
  /\ UNCHANGED <<raster, dataset, location, source, product, clock, next_id, in_transaction, executed>>

\* The caller opens a transaction on the connection.
begin(c) ==
  /\ conn[c].pc = "idle"
  /\ ~in_transaction[c]
  /\ in_transaction' = [in_transaction EXCEPT ![c] = TRUE]
  /\ UNCHANGED <<raster, dataset, location, source, product, metadata_type, clock, next_id, conn, builder, executed>>

\* The caller commits the connection's transaction.
commit(c) ==
  /\ conn[c].pc = "idle"
  /\ in_transaction[c]
  /\ in_transaction' = [in_transaction EXCEPT ![c] = FALSE]
  /\ UNCHANGED <<raster, dataset, location, source, product, metadata_type, clock, next_id, conn, builder, executed>>

(***************************************************************************)
(* The search entry points: the query is built, then executed.             *)
(***************************************************************************)
\* The query search_datasets_query builds, by its parameters.
Query(expressions, select_fields, limit) ==
  [expressions |-> expressions, select_fields |-> select_fields, limit |-> limit]

\* A faulty unique search: it falls back to the query of search_datasets.
search_unique_datasets_query_fallback(expressions, select_fields, limit) ==
  [raised |-> "none", query |-> <<Query(expressions, select_fields, limit)>>]

\* search_unique_datasets_query: raise NotImplementedError()
search_unique_datasets_query(expressions, select_fields, limit) ==
  [raised |-> "NotImplementedError", query |-> <<>>]

\* search_unique_datasets: the query is built, then executed on the connection.
search_unique_datasets(c, expressions, select_fields, limit) ==
  /\ conn[c].pc = "idle"
  /\ LET q == search_unique_datasets_query(expressions, select_fields, limit) IN
       IF q.raised # "none"
       THEN /\ executed' = <<>>
            /\ conn' = [conn EXCEPT ![c] = Idle("search_unique_datasets", q.raised)]
       ELSE /\ executed' = q.query
            /\ conn' = [conn EXCEPT ![c] = Idle("search_unique_datasets", "rows")]
  /\ UNCHANGED <<raster, dataset, location, source, product, metadata_type, clock, next_id, in_transaction, builder>>

\* search_datasets_query's preconditions, "assert source_exprs is None" and
\* "assert not with_source_ids": an assert raises AssertionError, and is not
\* compiled at all when the interpreter runs optimized (python -O).
asserts_raise(source_exprs, with_source_ids, optimized) ==
  ~optimized /\ (source_exprs # "None" \/ with_source_ids)

\* search_datasets (the handler): the query is built by search_datasets_query,
\* which ignores source_exprs and with_source_ids once past its asserts, and
\* executed on the connection.
call_search_datasets(c, expressions, source_exprs, select_fields, with_source_ids, limit,
                     optimized) ==
  /\ conn[c].pc = "idle"
  /\ IF asserts_raise(source_exprs, with_source_ids, optimized)
     THEN /\ executed' = <<>>
          /\ conn' = [conn EXCEPT ![c] = Idle("search_datasets", "AssertionError")]
     ELSE /\ executed' = <<Query(expressions, select_fields, limit)>>
          /\ conn' = [conn EXCEPT ![c] = Idle("search_datasets", "rows")]
  /\ UNCHANGED <<raster, dataset, location, source, product, metadata_type, clock, next_id, in_transaction, builder>>

\* The query count_datasets_through_time_query builds, by its parameters.
HistogramQuery(start, end, period, expressions) ==
  [start |-> start, end |-> end, period |-> period, expressions |-> expressions]

\* count_datasets_through_time (the handler): the query is built and executed on
\* the connection, and its rows are yielded as (Range(lower, upper), count).
call_count_datasets_through_time(c, start, end, period, expressions) ==
  /\ conn[c].pc = "idle"
  /\ executed' = <<HistogramQuery(start, end, period, expressions)>>
  /\ conn' = [conn EXCEPT ![c] = Idle("count_datasets_through_time", "rows")]
  /\ UNCHANGED <<raster, dataset, location, source, product, metadata_type, clock, next_id, in_transaction, builder>>

\* An optional argument: None, or the tuple given.
None == [none |-> TRUE, items |-> <<>>]
Some(items) == [none |-> FALSE, items |-> items]

\* if expressions: / if fields: an argument that is None or empty adds no table.
items_of(argument) == IF argument.none THEN <<>> ELSE argument.items

\* _join_tables called on its own, as the query builders call it, with optional
\* arguments: the call is recorded with the list it returns.
call_join_tables(c, expressions, fields) ==
  /\ conn[c].pc = "idle"
  /\ executed' = <<[expressions |-> expressions, fields |-> fields,
                    join_tables |-> join_tables(items_of(expressions), items_of(fields))]>>
  /\ conn' = [conn EXCEPT ![c] = Idle("_join_tables", "tables")]
  /\ UNCHANGED <<raster, dataset, location, source, product, metadata_type, clock, next_id,
                 in_transaction, builder>>

\* The store's clock advances between statements.
Tick ==
  /\ clock < MaxClock
  /\ clock' = clock + 1
  /\ UNCHANGED <<raster, dataset, location, source, product, metadata_type, next_id, conn, in_transaction, builder, executed>>

Init ==
  /\ dataset = <<>>
  /\ location = {}
  /\ source = {}
  /\ product = ProductTable
  /\ metadata_type = MetadataTypeTable
  /\ clock = 0
  /\ next_id = 1
  /\ conn = [c \in Connections |-> Idle("none", "none")]
  /\ in_transaction = [c \in Connections |-> FALSE]
  /\ builder = <<>>
  /\ executed = <<>>
  /\ datasources = <<>>
  /\ dst_nodata = "0"
  /\ skip_broken_datasets = FALSE
  /\ destination = [p \in Pixels |-> "0"]
  /\ buffer_ = <<>>
  /\ position = [pc |-> "idle", i |-> 0]

\* The dataset handlers on one connection, at one reading of the clock.
Next ==
  \E c \in {1} :
    \/ \E d \in DatasetIds, p \in ProductIds, doc \in Docs : insert_dataset(c, d, p, doc)
    \/ \E d \in DatasetIds, p \in ProductIds, doc \in Docs : update_dataset(c, d, p, doc)
    \/ \E d \in DatasetIds : archive_dataset(c, d)
    \/ \E d \in DatasetIds : restore_dataset(c, d)
    \/ \E d \in DatasetIds, uri \in Uris :
         next_id <= MaxSpecLocationId /\ insert_dataset_location(c, d, uri)
    \/ \E cl \in Classifiers, d \in DatasetIds, s \in DatasetIds : insert_dataset_source(c, cl, d, s)
    \/ \E d \in DatasetIds : delete_dataset(c, d)
    \/ delete_dataset_sources(c)
    \/ delete_dataset_row(c)

Spec == Init /\ [][Next]_vars

(***************************************************************************)
(* Racing connections: a handler is entered on a connection, and its       *)
(* statement is executed by the store at some later point, atomically.     *)
(***************************************************************************)
call_insert_dataset(c, d, p, doc) ==
  /\ conn[c].op = "none"
  /\ conn' = [conn EXCEPT ![c] = InCall("insert_dataset", d, <<p, doc>>, "execute")]
  /\ UNCHANGED <<raster, dataset, location, source, product, metadata_type, clock, next_id, in_transaction, builder, executed>>

execute_insert_dataset(c) ==
  /\ conn[c].op = "insert_dataset" /\ conn[c].pc = "execute"
  /\ LET r == insert_dataset_stmt(conn[c].d, conn[c].arg[1], conn[c].arg[2]) IN
       /\ dataset' = r.dataset
       /\ conn' = [conn EXCEPT ![c].pc = "idle", ![c].ret = Bool(r.rowcount > 0)]
  /\ UNCHANGED <<raster, location, source, product, metadata_type, clock, next_id, in_transaction, builder, executed>>

call_archive_dataset(c, d) ==
  /\ conn[c].op = "none"
  /\ conn' = [conn EXCEPT ![c] = InCall("archive_dataset", d, <<>>, "execute")]
  /\ UNCHANGED <<raster, dataset, location, source, product, metadata_type, clock, next_id, in_transaction, builder, executed>>

execute_archive_dataset(c) ==
  /\ conn[c].op = "archive_dataset" /\ conn[c].pc = "execute"
  /\ LET r == archive_dataset_stmt(conn[c].d) IN
       /\ dataset' = r.dataset
       /\ conn' = [conn EXCEPT ![c].pc = "idle", ![c].ret = Bool(r.rowcount > 0)]
  /\ UNCHANGED <<raster, location, source, product, metadata_type, clock, next_id, in_transaction, builder, executed>>

\* The store after insert_dataset(DocA, "d1", 1), every connection yet to call.
InitRace ==
  /\ dataset = ("d1" :> [product_ref |-> 1, metadata_type_ref |-> 1,
                         metadata_doc |-> DocA, archived |-> NULL])
  /\ location = {}
  /\ source = {}
  /\ product = ProductTable
  /\ metadata_type = MetadataTypeTable
  /\ clock = 0
  /\ next_id = 1
  /\ conn = [c \in Connections |-> Idle("none", "none")]
  /\ in_transaction = [c \in Connections |-> FALSE]
  /\ builder = <<>>
  /\ executed = <<>>
  /\ datasources = <<>>
  /\ dst_nodata = "0"
  /\ skip_broken_datasets = FALSE
  /\ destination = [p \in Pixels |-> "0"]
  /\ buffer_ = <<>>
  /\ position = [pc |-> "idle", i |-> 0]

\* Each connection makes one call, insert_dataset or archive_dataset, in any
\* interleaving with the others and with the clock.
NextRace ==
  \/ \E c \in Connections :
       \/ \E d \in DatasetIds, p \in ProductIds, doc \in Docs : call_insert_dataset(c, d, p, doc)
       \/ execute_insert_dataset(c)
       \/ \E d \in DatasetIds : call_archive_dataset(c, d)
       \/ execute_archive_dataset(c)
  \/ Tick

SpecRace == InitRace /\ [][NextRace]_vars

\* The store after insert_dataset(DocA, d, 1) for each dataset id.
InitLocation ==
  /\ dataset = [d \in DatasetIds |-> [product_ref |-> 1, metadata_type_ref |-> 1,
                                       metadata_doc |-> DocA, archived |-> NULL]]
  /\ location = {}
  /\ source = {}
  /\ product = ProductTable
  /\ metadata_type = MetadataTypeTable
  /\ clock = 0
  /\ next_id = 1
  /\ conn = [c \in Connections |-> Idle("insert_dataset", "true")]
  /\ in_transaction = [c \in Connections |-> FALSE]
  /\ builder = <<>>
  /\ executed = <<>>
  /\ datasources = <<>>
  /\ dst_nodata = "0"
  /\ skip_broken_datasets = FALSE
  /\ destination = [p \in Pixels |-> "0"]
  /\ buffer_ = <<>>
  /\ position = [pc |-> "idle", i |-> 0]

\* The location handlers on one connection, the clock advancing between calls.
NextLocation ==
  \/ \E c \in {1} :
       \/ \E d \in DatasetIds, uri \in Uris :
            next_id <= MaxLocationId /\ insert_dataset_location(c, d, uri)
       \/ \E d \in DatasetIds, uri \in Uris : remove_location(c, d, uri)
       \/ \E d \in DatasetIds, uri \in Uris : archive_location(c, d, uri)
       \/ \E d \in DatasetIds, uri \in Uris : restore_location(c, d, uri)
  \/ Tick

SpecLocation == InitLocation /\ [][NextLocation]_vars

\* The store before any call.
InitSearch == Init

\* The handlers that write the tables the searches read (Dataset and
\* DatasetLocation) on one connection, at one reading of the clock.
NextSearch ==
  \E c \in {1} :
    \/ \E d \in DatasetIds, p \in ProductIds, doc \in Docs : insert_dataset(c, d, p, doc)
    \/ \E d \in DatasetIds, p \in ProductIds, doc \in Docs : update_dataset(c, d, p, doc)
    \/ \E d \in DatasetIds : archive_dataset(c, d)
    \/ \E d \in DatasetIds : restore_dataset(c, d)
    \/ \E d \in DatasetIds, uri \in Uris :
         next_id <= MaxSpecLocationId /\ insert_dataset_location(c, d, uri)
    \/ \E d \in DatasetIds : delete_dataset(c, d)
    \/ delete_dataset_sources(c)
    \/ delete_dataset_row(c)

SpecSearch == InitSearch /\ [][NextSearch]_vars

\* The store before any call.
InitArchive == Init

\* The archive and restore handlers of datasets and the handlers of locations on
\* one connection, at one reading of the clock; datasets are inserted with one
\* product and document.
NextArchive ==
  \E c \in {1} :
    \/ \E d \in DatasetIds : insert_dataset(c, d, 1, DocA)
    \/ \E d \in DatasetIds : archive_dataset(c, d)
    \/ \E d \in DatasetIds : restore_dataset(c, d)
    \/ \E d \in DatasetIds, uri \in Uris :
         next_id <= MaxSpecLocationId /\ insert_dataset_location(c, d, uri)
    \/ \E d \in DatasetIds, uri \in Uris : archive_location(c, d, uri)
    \/ \E d \in DatasetIds, uri \in Uris : restore_location(c, d, uri)
    \/ \E d \in DatasetIds, uri \in Uris : remove_location(c, d, uri)

SpecArchive == InitArchive /\ [][NextArchive]_vars

\* Inputs of the search entry points: source_exprs ("None" or a tuple of
\* expressions) and limit (<<>> is None).
SourceExprs == {"None", <<>>, <<[field |-> "id", value |-> "d1"]>>}
Limits == {<<>>, <<1>>}
QueryExpressionTuples == {<<>>, <<[field |-> "format", value |-> "GeoTIFF"]>>}
QueryFieldTuples == {<<>>, <<"uri">>}

\* The store before any call.
InitQuery == Init

\* Datasets are inserted and archived and the search entry points called on one
\* connection, by an interpreter that runs optimized or not.
NextQuery ==
  \E c \in {1} :
    \/ \E d \in DatasetIds, p \in ProductIds : insert_dataset(c, d, p, DocA)
    \/ \E d \in DatasetIds : archive_dataset(c, d)
    \/ \E E \in QueryExpressionTuples, F \in QueryFieldTuples, limit \in Limits :
         search_unique_datasets(c, E, F, limit)
    \/ \E E \in QueryExpressionTuples, src \in SourceExprs, F \in QueryFieldTuples,
          with_source_ids \in BOOLEAN, limit \in Limits, optimized \in BOOLEAN :
         call_search_datasets(c, E, src, F, with_source_ids, limit, optimized)

SpecQuery == InitQuery /\ [][NextQuery]_vars

\* Inputs of update_product.
ProductNames == {"ls8", "s2", "nope"}

\* The store before any call.
InitSchema == Init

\* Datasets are inserted and products updated on one connection, inside and
\* outside transactions.
NextSchema ==
  \E c \in {1} :
    \/ \E d \in DatasetIds, p \in ProductIds : insert_dataset(c, d, p, DocA)
    \/ begin(c)
    \/ commit(c)
    \/ \E name \in ProductNames, metadata \in ProductDocs, metadata_type_id \in ProductIds,
          search_fields \in SearchFieldSets, flag \in BOOLEAN :
         update_product(c, name, metadata, metadata_type_id, search_fields,
                        [metadata |-> metadata], flag)

SpecSchema == InitSchema /\ [][NextSchema]_vars

(***************************************************************************)
(* Properties.                                                             *)
(***************************************************************************)

\* C1: insert_dataset returns true exactly when no row with that id existed just
\* before the call and never raises; when it returns false the Dataset table is
\* unchanged; the row is contained after the call, and a contained id stays
\* contained in every step except the row deletion of delete_dataset(id).
C1_InsertDatasetIdempotent ==
  [][/\ \A d \in DatasetIds, p \in ProductIds, doc \in Docs :
          insert_dataset(1, d, p, doc) =>
            /\ conn'[1].ret = Bool(~contains_dataset(d))
            /\ conn'[1].ret = "false" => dataset' = dataset
            /\ contains_dataset(d)'
     /\ \A d \in DatasetIds :
          contains_dataset(d) /\ ~contains_dataset(d)' =>
            delete_dataset_row(1) /\ conn[1].d = d]_vars

\* An insert_dataset call has just returned false beside an archived row.
C1_Witness ==
  /\ conn[1].op = "insert_dataset"
  /\ conn[1].ret = "false"
  /\ \E d \in DOMAIN dataset : dataset[d].archived # NULL

\* C2: archive_dataset(d) returns true exactly when d exists and its archived field
\* is null just before the call; right after an archive that returned true a second
\* archive affects no row (returns false), and right after a restore_dataset(d)
\* that found the row an archive affects one row (returns true).
C2_ArchiveRestoreArchive ==
  [][\A d \in DatasetIds :
       /\ archive_dataset(1, d) =>
            /\ conn'[1].ret = Bool(d \in DOMAIN dataset /\ dataset[d].archived = NULL)
            /\ conn'[1].ret = "true" => (archive_dataset_stmt(d).rowcount)' = 0
       /\ restore_dataset(1, d) /\ conn'[1].ret = "true" =>
            (archive_dataset_stmt(d).rowcount)' = 1]_vars

\* An archive_dataset call has just returned false on an already archived row.
C2_Witness ==
  /\ conn[1].op = "archive_dataset"
  /\ conn[1].ret = "false"
  /\ \E d \in DOMAIN dataset : dataset[d].archived # NULL
\* The connections whose call is op on dataset d.
callers(op, d) == {c \in Connections : conn[c].op = op /\ conn[c].d = d}

\* C3: when connections race to archive_dataset the non-archived dataset d1 and
\* nothing restores it, at most one of the calls has returned true at any time,
\* exactly one once all have returned; a call that returns true writes its own
\* now() as the archived timestamp and a call that returns false writes nothing.
C3_OneArchiverWins ==
  /\ [](\A d \in DatasetIds :
          LET cs == callers("archive_dataset", d)
              won == {c \in cs : conn[c].ret = "true"}
          IN /\ Cardinality(won) <= 1
             /\ \A c \in cs : conn[c].pc = "idle" => conn[c].ret \in {"true", "false"}
             /\ (d = "d1" /\ cs # {} /\ \A c \in cs : conn[c].pc = "idle") =>
                  Cardinality(won) = 1 /\ dataset[d].archived # NULL)
  /\ [][\A c \in Connections :
          execute_archive_dataset(c) =>
            IF conn'[c].ret = "true"
            THEN dataset'[conn[c].d].archived = <<clock>>
            ELSE dataset' = dataset]_vars

\* Both connections have called archive_dataset("d1") and returned, at different
\* readings of the clock.
C3_Witness ==
  /\ \A c \in Connections :
       conn[c].op = "archive_dataset" /\ conn[c].d = "d1" /\ conn[c].pc = "idle"
  /\ clock > 0
  /\ dataset["d1"].archived = <<0>>

\* C4: when connections race to insert_dataset the same id, absent before, no call
\* raises, at most one has returned true at any time, and once all have returned
\* exactly one has returned true and the row of that id is the row of that call.
C4_OneInserterWins ==
  \A d \in DatasetIds :
    LET cs == callers("insert_dataset", d)
        won == {c \in cs : conn[c].ret = "true"}
    IN /\ Cardinality(won) <= 1
       /\ \A c \in cs : conn[c].pc = "idle" => conn[c].ret \in {"true", "false"}
       /\ (d # "d1" /\ cs # {} /\ \A c \in cs : conn[c].pc = "idle") =>
            /\ Cardinality(won) = 1
            /\ d \in DOMAIN dataset
            /\ \A c \in won : /\ dataset[d].product_ref = conn[c].arg[1]
                              /\ dataset[d].metadata_doc = conn[c].arg[2]

\* Both connections have called insert_dataset("d2") with different documents and
\* returned.
C4_Witness ==
  /\ \A c \in Connections :
       conn[c].op = "insert_dataset" /\ conn[c].d = "d2" /\ conn[c].pc = "idle"
  /\ \E c1, c2 \in Connections : conn[c1].arg # conn[c2].arg
\* The datasets whose archived field is null.
active == {d \in DOMAIN dataset : dataset[d].archived = NULL}

row_ids(rows) == {r.d : r \in rows}

\* C5: in every state no archived dataset is among the rows search_datasets returns
\* (with or without limit), the rows count_datasets counts, the rows any bucket of
\* count_datasets_through_time counts, or the rows of any group of get_duplicates,
\* whatever the expressions and fields; and right after restore_dataset(d) finds the
\* row, d is back in the unfiltered search and count, in the bucket of its time,
\* and in the duplicate group of its format when another active dataset shares it.
C5_ArchivedNeverReturned ==
  /\ [](\A E \in ExpressionTuples :
          /\ \A F \in FieldTuples :
               /\ row_ids(search_datasets_query(E, F)) \subseteq active
               /\ \A res \in search_datasets(E, F, <<1>>) : row_ids(res) \subseteq active
               /\ \A g \in get_duplicates(F, E) : row_ids(g.rows) \subseteq active
          /\ row_ids(count_datasets_rows(E)) \subseteq active
          /\ count_datasets(E) = Cardinality(count_datasets_rows(E))
          /\ \A h \in HistogramInputs :
               LET res == count_datasets_through_time(h[1], h[2], h[3], E) IN
               \A i \in 1..Len(res) :
                 LET rows == bucket_rows(res[i][1], E) IN
                 /\ row_ids(rows) \subseteq active
                 /\ res[i][2] = Cardinality(rows))
  /\ [][\A d \in DatasetIds :
          restore_dataset(1, d) /\ conn'[1].ret = "true" =>
            /\ d \in row_ids(search_datasets_query(<<>>, <<>>))'
            /\ d \in row_ids(count_datasets_rows(<<>>))'
            /\ (\E i \in 1..3 : d \in row_ids(bucket_rows(time_ranges(0, 3, 1)[i], <<>>)))'
            /\ ((\E x \in active \ {d} :
                   dataset[x].metadata_doc.format = dataset[d].metadata_doc.format)
                => \E g \in get_duplicates(<<"format">>, <<>>) : d \in row_ids(g.rows))']_vars

\* restore_dataset has just returned true while another dataset, which has a
\* location, is archived.
C5_Witness ==
  /\ conn[1].op = "restore_dataset"
  /\ conn[1].ret = "true"
  /\ active # {}
  /\ \E d \in DOMAIN dataset \ active : \E l \in location : l.dataset_ref = d

\* C6 as claimed: get_dataset, get_datasets, search_datasets_by_metadata and
\* get_datasets_for_location never return a dataset whose archived field is set.
C6_LookupsFilterArchived ==
  /\ \A d \in DatasetIds : \A row \in get_dataset(d) : row.archived = NULL
  /\ \A row \in get_datasets(DatasetIds) : row.archived = NULL
  /\ \A m \in MetadataInputs : \A row \in search_datasets_by_metadata(m) : row.archived = NULL
  /\ \A uri \in {u \in Uris : has_scheme(u)}, mode \in {"None", "exact", "prefix"} :
       row_ids(get_datasets_for_location(uri, mode)) \subseteq active

\* C6, amended: get_dataset, get_datasets, search_datasets_by_metadata and
\* get_datasets_for_location apply no archived predicate: each returns every
\* dataset row its own condition selects, archived or not, with the row's
\* archived field as stored.
C6_LookupsIgnoreArchived ==
  /\ \A d \in DatasetIds :
       /\ {row.id : row \in get_dataset(d)} = {d} \cap DOMAIN dataset
       /\ \A row \in get_dataset(d) : row.archived = dataset[d].archived
  /\ \A ids \in SUBSET DatasetIds :
       {row.id : row \in get_datasets(ids)} = ids \cap DOMAIN dataset
  /\ \A m \in MetadataInputs :
       {row.id : row \in search_datasets_by_metadata(m)}
         = {d \in DOMAIN dataset : doc_contains(dataset[d].metadata_doc, m)}
  /\ \A l \in location :
       /\ [d |-> l.dataset_ref, l |-> l.id] \in get_datasets_for_location(location_uri(l), "exact")
       /\ [d |-> l.dataset_ref, l |-> l.id] \in get_datasets_for_location(location_uri(l), "None")

\* archive_dataset has just archived a dataset that has a location.
C6_Witness ==
  /\ conn[1].op = "archive_dataset"
  /\ conn[1].ret = "true"
  /\ \E d \in DOMAIN dataset \ active : \E l \in location : l.dataset_ref = d

\* C7: in every state search_datasets with no expressions, no select_fields and no
\* limit returns exactly one row per non-archived dataset and nothing else, and the
\* dataset ids returned for any expression tuple are among those returned for none.
C7_SearchAllAndSubset ==
  /\ search_datasets(<<>>, <<>>, <<>>) = {{[d |-> d, l |-> 0, p |-> 0] : d \in active}}
  /\ \A E \in ExpressionTuples :
       \A res \in search_datasets(E, <<>>, <<>>) :
         row_ids(res) \subseteq row_ids(search_datasets_query(<<>>, <<>>))

\* Two datasets are active, one of them without a location, and an expression on
\* the uri selects one and filters out the other.
C7_Witness ==
  /\ Cardinality(active) = 2
  /\ location # {}
  /\ \E d \in active : \A l \in location : l.dataset_ref # d
  /\ row_ids(search_datasets_query(<<[field |-> "uri", value |-> UriFA]>>, <<>>)) # {}
  /\ row_ids(search_datasets_query(<<[field |-> "uri", value |-> UriFA]>>, <<>>)) # active
\* The location rows with key (d, scheme, body) of the URI.
location_key(d, uri) ==
  {l \in location : /\ l.dataset_ref = d
                    /\ l.uri_scheme = split_uri(uri)[1]
                    /\ l.uri_body = split_uri(uri)[2]}

\* C8: restore_dataset(d) returns true exactly when the row d exists, archived or
\* not, and leaves its archived field null and the rest of the table as it was;
\* restore_location(d, uri) returns true exactly when a location with the key
\* (d, scheme, body) exists and is archived, then clears that row's archived
\* field only, and otherwise changes nothing.
C8_RestoreDatasetAndLocation ==
  [][\A d \in DatasetIds :
       /\ restore_dataset(1, d) =>
            /\ conn'[1].ret = Bool(d \in DOMAIN dataset)
            /\ DOMAIN dataset' = DOMAIN dataset
            /\ \A x \in DOMAIN dataset :
                 dataset'[x] = IF x = d THEN [dataset[x] EXCEPT !.archived = NULL]
                               ELSE dataset[x]
       /\ \A uri \in {u \in Uris : has_scheme(u)} :
            restore_location(1, d, uri) =>
              LET hit == {l \in location_key(d, uri) : l.archived # NULL} IN
              /\ conn'[1].ret = Bool(hit # {})
              /\ location' = (location \ hit) \cup {[l EXCEPT !.archived = NULL] : l \in hit}
              /\ hit = {} => location' = location]_vars

\* restore_location has just returned true for a location of a dataset that is
\* itself archived, and an active dataset is there for restore_dataset to find.
C8_Witness ==
  /\ conn[1].op = "restore_location"
  /\ conn[1].ret = "true"
  /\ \E l \in location : l.archived = NULL /\ l.dataset_ref \notin active
  /\ active # {}

\* C9 as claimed: delete_dataset(d) deletes the locations of d, then the lineage
\* edges of d, then the row d, no step leaving a location or edge whose
\* dataset_ref names a removed row, and returns true exactly when the row existed.
C9_DeleteOrderAndResult ==
  [][/\ \A l \in location' : l.dataset_ref \in DOMAIN dataset'
     /\ \A e \in source' : e.dataset_ref \in DOMAIN dataset'
     /\ \A d \in DatasetIds :
          /\ delete_dataset(1, d) =>
               /\ conn'[1].pc = "delete_sources"
               /\ \A l \in location' : l.dataset_ref # d
          /\ delete_dataset_sources(1) /\ conn[1].d = d =>
               /\ conn'[1].pc = "delete_row"
               /\ \A e \in source' : e.dataset_ref # d
          /\ delete_dataset_row(1) /\ conn[1].d = d =>
               conn'[1].ret = Bool(d \in DOMAIN dataset)]_vars

\* C10: when delete_dataset(d) returns true the row d is gone and no location and
\* no lineage edge refers to d, neither as dataset_ref nor as source_dataset_ref;
\* its two first statements remove every reference to d but the edges that name d
\* as their source, so the row deletion is rejected only because of such an edge;
\* and in every state each location and edge refers to rows that exist.
C10_NoReferenceAfterDelete ==
  /\ [](/\ \A l \in location : l.dataset_ref \in DOMAIN dataset
        /\ \A e \in source : e.dataset_ref \in DOMAIN dataset
                             /\ e.source_dataset_ref \in DOMAIN dataset)
  /\ [][\A d \in DatasetIds :
          delete_dataset_row(1) /\ conn[1].d = d =>
            /\ conn'[1].ret = "true" =>
                 /\ d \notin DOMAIN dataset'
                 /\ \A l \in location' : l.dataset_ref # d
                 /\ \A e \in source' : e.dataset_ref # d /\ e.source_dataset_ref # d
            /\ conn'[1].ret = "IntegrityError" =>
                 \E e \in source : e.source_dataset_ref = d /\ e.dataset_ref # d]_vars

\* delete_dataset has just returned true, the location row ever inserted is gone
\* with it, and the other dataset is the source of its own edge.
C10_Witness ==
  /\ conn[1].op = "delete_dataset"
  /\ conn[1].ret = "true"
  /\ next_id > 1
  /\ location = {}
  /\ Cardinality(DOMAIN dataset) = 1
  /\ source # {}
\* The location rows a step adds, removes or modifies.
touched == (location \ location') \cup (location' \ location)

\* The row's URI is uri, split at its first ':': the scheme holds no ':'.
keyed_by(l, uri) ==
  /\ \A i \in 1..Len(l.uri_scheme) : l.uri_scheme[i] # ":"
  /\ location_uri(l) = uri

\* The step is the location mutation op(d, uri) on connection 1.
location_mutation(d, uri) ==
  \/ insert_dataset_location(1, d, uri)
  \/ archive_location(1, d, uri)
  \/ restore_location(1, d, uri)
  \/ remove_location(1, d, uri)

\* A mutation given a URI without ':' returns ValueError and the store is as it
\* was; given any other URI it touches only rows of dataset d whose scheme is the
\* text before the URI's first ':' and whose body is everything after it.
mutations_keyed ==
  \A d \in DatasetIds, uri \in Uris :
    location_mutation(d, uri) =>
      IF has_scheme(uri)
      THEN /\ conn'[1].ret # "ValueError"
           /\ \A l \in touched : l.dataset_ref = d /\ keyed_by(l, uri)
      ELSE /\ conn'[1].ret = "ValueError"
           /\ UNCHANGED <<dataset, location, source, product, metadata_type, next_id, in_transaction, builder, executed>>

\* C11 as claimed: every location mutation is keyed by (dataset_ref, scheme, body)
\* of the URI split at its first ':' and raises ValueError, the store untouched,
\* for a URI without ':'; get_datasets_for_location raises ValueError for such a
\* URI too and otherwise returns the rows of the locations with that scheme and
\* body.
C11_LocationKeyEverywhere ==
  /\ [][mutations_keyed]_vars
  /\ [](\A uri \in LookupUris, mode \in {"None", "exact", "prefix"} :
          IF has_scheme(uri)
          THEN get_datasets_for_location(uri, mode)
                 = {[d |-> l.dataset_ref, l |-> l.id] : l \in {x \in location : keyed_by(x, uri)}}
          ELSE get_datasets_for_location(uri, mode) = "ValueError")

\* C11, amended: the four mutations are as claimed; get_datasets_for_location takes
\* no dataset id, raises ValueError for a URI without ':', and otherwise returns
\* the rows of the locations whose scheme is the text before the first ':' and
\* whose body equals the rest (mode exact, the default when the body holds a '#')
\* or starts with the rest (mode prefix, the default otherwise).
C11_LocationKeyOrPrefix ==
  /\ [][mutations_keyed]_vars
  /\ [](\A uri \in LookupUris, mode \in {"None", "exact", "prefix"} :
          IF has_scheme(uri)
          THEN LET exact == \/ mode = "exact"
                            \/ /\ mode = "None"
                               /\ \E i \in 1..Len(uri) :
                                    uri[i] = "#" /\ \E j \in 1..(i - 1) : uri[j] = ":"
                   matches(l) ==
                     \E n \in 0..Len(l.uri_body) :
                       /\ exact => n = Len(l.uri_body)
                       /\ keyed_by([l EXCEPT !.uri_body = SubSeq(l.uri_body, 1, n)], uri)
               IN get_datasets_for_location(uri, mode)
                    = {[d |-> l.dataset_ref, l |-> l.id] : l \in {x \in location : matches(x)}}
          ELSE get_datasets_for_location(uri, mode) = "ValueError")

\* archive_location has just archived a location whose body holds a further ':',
\* which a lookup by a prefix of its body finds and an exact lookup does not.
C11_Witness ==
  /\ conn[1].op = "archive_location"
  /\ conn[1].ret = "true"
  /\ \E l \in location : /\ l.archived # NULL
                         /\ l.uri_scheme = <<"f">>
                         /\ l.uri_body = <<"a", "#", ":", "b">>
  /\ Cardinality(get_datasets_for_location(UriFA, "None")) = 1
  /\ get_datasets_for_location(UriFA, "exact") = {}
  /\ get_datasets_for_location(UriFAHash, "None") = {}
  /\ Cardinality(get_datasets_for_location(UriFAHash, "prefix")) = 1
\* The location rows of dataset d.
locations_of(d) == {l \in location : l.dataset_ref = d}

\* The URIs a result of get_archived_locations lists.
archived_uris(res) == {res[i][1] : i \in 1..Len(res)}

\* C12: in every state get_locations(d) lists each non-archived location of d once
\* and nothing else, a row added later before a row added earlier and, of two rows
\* added at the same time, the one of the larger id first; get_archived_locations(d)
\* lists the archived locations of d with their archived times, so the two results
\* are disjoint and together cover the locations of d; and right after
\* archive_location(d, u) returns true u is absent from the first and present in
\* the second.
C12_LocationsActiveNewestFirst ==
  /\ [](\A d \in DatasetIds :
          LET uris == get_locations(d)
              row(i) == CHOOSE l \in locations_of(d) : location_uri(l) = uris[i]
          IN /\ {uris[i] : i \in 1..Len(uris)}
                  = {location_uri(l) : l \in {x \in locations_of(d) : x.archived = NULL}}
             /\ Len(uris) = Cardinality({x \in locations_of(d) : x.archived = NULL})
             /\ \A i, j \in 1..Len(uris) :
                  i < j => \/ row(i).added > row(j).added
                           \/ row(i).added = row(j).added /\ row(i).id > row(j).id
             /\ get_archived_locations(d) # {}
             /\ \A res \in get_archived_locations(d) :
                  /\ {res[i] : i \in 1..Len(res)}
                       = {<<location_uri(l), l.archived[1]>> :
                            l \in {x \in locations_of(d) : x.archived # NULL}}
                  /\ archived_uris(res) \cap {uris[i] : i \in 1..Len(uris)} = {}
                  /\ archived_uris(res) \cup {uris[i] : i \in 1..Len(uris)}
                       = {location_uri(l) : l \in locations_of(d)})
  /\ [][conn'[1].op = "archive_location" /\ conn'[1].ret = "true" /\ location' # location =>
          \A d \in DatasetIds, u \in Uris :
            archive_location(1, d, u) =>
              /\ \A i \in 1..Len(get_locations(d)') : get_locations(d)'[i] # u
              /\ \A res \in get_archived_locations(d)' : u \in archived_uris(res)]_vars

\* archive_location has just archived one of two locations of a dataset, the
\* other, added at another reading of the clock, staying active.
C12_Witness ==
  /\ conn[1].op = "archive_location"
  /\ conn[1].ret = "true"
  /\ \E a, b \in location : /\ a.dataset_ref = b.dataset_ref
                            /\ a.archived # NULL /\ b.archived = NULL
                            /\ a.added # b.added
\* The step is update_product on connection 1 with update_metadata_type = flag, for
\* some name, documents, metadata type and search fields.
update_product_called(name, flag) ==
  \E metadata \in ProductDocs, metadata_type_id \in ProductIds,
     search_fields \in SearchFieldSets :
    update_product(1, name, metadata, metadata_type_id, search_fields,
                   [metadata |-> metadata], flag)

\* C13: update_product with update_metadata_type = True on a connection that is not
\* in a transaction raises RuntimeError when it names an existing product (for a
\* name no product has, the call has failed before the check, with TypeError); in
\* either case no Dataset row changes and the index/view builder is not invoked.
C13_RejectedWithoutTransaction ==
  [][~in_transaction[1] =>
       \A name \in ProductNames :
         update_product_called(name, TRUE) =>
           /\ conn'[1].ret = IF \E p \in DOMAIN product : product[p].name = name
                             THEN "RuntimeError" ELSE "TypeError"
           /\ dataset' = dataset
           /\ builder' = <<>>]_vars

\* update_product has just been rejected on a connection without a transaction,
\* the builder was not invoked, and a dataset still has the metadata type its
\* product had at insertion, which is not the one the product row names.
C13_Witness ==
  /\ conn[1].op = "update_product"
  /\ conn[1].ret = "RuntimeError"
  /\ ~in_transaction[1]
  /\ builder = <<>>
  /\ \E d \in DOMAIN dataset :
       dataset[d].metadata_type_ref # product[dataset[d].product_ref].metadata_type_ref

\* C14 as claimed: when update_product(update_metadata_type = True) is rejected for
\* want of a transaction, the Product table and the Dataset table are as they were
\* before the call.
C14_RejectionLeavesStoreUnchanged ==
  [][~in_transaction[1] =>
       \A name \in ProductNames :
         update_product_called(name, TRUE) /\ conn'[1].ret = "RuntimeError" =>
           product' = product /\ dataset' = dataset]_vars
\* C15: search_unique_datasets, and so the search_unique_datasets_query it calls
\* first, raises NotImplementedError whatever its arguments, and the call executes
\* no query on the connection.
C15_UniqueSearchUnsupported ==
  /\ \A E \in QueryExpressionTuples, F \in QueryFieldTuples, limit \in Limits :
       search_unique_datasets_query(E, F, limit).raised = "NotImplementedError"
  /\ [][\A E \in QueryExpressionTuples, F \in QueryFieldTuples, limit \in Limits :
          search_unique_datasets(1, E, F, limit) =>
            /\ conn'[1].ret = "NotImplementedError"
            /\ executed' = <<>>]_vars

\* search_unique_datasets has just raised, in a store that holds an active and an
\* archived dataset for a search to find.
C15_Witness ==
  /\ conn[1].op = "search_unique_datasets"
  /\ conn[1].ret = "NotImplementedError"
  /\ executed = <<>>
  /\ active # {}
  /\ DOMAIN dataset # active

\* C16 as claimed: search_datasets called with source_exprs not None or with
\* with_source_ids true raises the unsupported-operation signal the unique search
\* raises, NotImplementedError, and executes no query.
C16_LineageSearchUnsupported ==
  [][\A E \in QueryExpressionTuples, src \in SourceExprs, F \in QueryFieldTuples,
        with_source_ids \in BOOLEAN, limit \in Limits, optimized \in BOOLEAN :
       (src # "None" \/ with_source_ids)
         /\ call_search_datasets(1, E, src, F, with_source_ids, limit, optimized) =>
           /\ conn'[1].ret = "NotImplementedError"
           /\ executed' = <<>>]_vars

\* The store before any call.
InitHistogram == Init

\* Datasets are inserted and archived and the histogram is asked for on one
\* connection.
NextHistogram ==
  \E c \in {1} :
    \/ \E d \in DatasetIds, p \in ProductIds, doc \in Docs : insert_dataset(c, d, p, doc)
    \/ \E d \in DatasetIds : archive_dataset(c, d)
    \/ \E h \in PeriodInputs, E \in QueryExpressionTuples :
         call_count_datasets_through_time(c, h[1], h[2], h[3], E)

SpecHistogram == InitHistogram /\ [][NextHistogram]_vars

\* The store before any call.
InitDuplicates == Init

\* Datasets of one product are inserted and archived and given locations, up to
\* two each, on one connection.
NextDuplicates ==
  \E c \in {1} :
    \/ \E d \in DatasetIds, doc \in Docs : insert_dataset(c, d, 1, doc)
    \/ \E d \in DatasetIds : archive_dataset(c, d)
    \/ \E d \in DatasetIds, uri \in {UriFA, UriFAB} :
         next_id <= MaxDuplicateLocationId /\ insert_dataset_location(c, d, uri)

SpecDuplicates == InitDuplicates /\ [][NextDuplicates]_vars

\* The store before any call.
InitInsert == Init

\* Datasets are inserted, given locations and lineage edges, and their locations
\* archived, on one connection.
NextInsert ==
  \E c \in {1} :
    \/ \E d \in DatasetIds : insert_dataset(c, d, 1, DocA)
    \/ \E d \in DatasetIds, uri \in Uris :
         next_id <= MaxLocationId /\ insert_dataset_location(c, d, uri)
    \/ \E d \in DatasetIds, uri \in Uris : archive_location(c, d, uri)
    \/ \E cl \in Classifiers, d \in DatasetIds, s \in DatasetIds :
         insert_dataset_source(c, cl, d, s)

SpecInsert == InitInsert /\ [][NextInsert]_vars

\* A store with the dataset d1 in it.
InitOneWay == InitRace

\* Every handler that writes the Dataset or the DatasetLocation table, and the
\* product update that re-points datasets, on one connection with the clock
\* advancing between calls; d1 is the dataset updated, located and deleted.
NextOneWay ==
  \/ \E c \in {1} :
       \/ \E d \in DatasetIds : insert_dataset(c, d, 1, DocA)
       \/ update_dataset(c, "d1", 1, DocB)
       \/ \E d \in DatasetIds : archive_dataset(c, d)
       \/ \E d \in DatasetIds : restore_dataset(c, d)
       \/ next_id <= MaxLocationId /\ insert_dataset_location(c, "d1", UriFA)
       \/ archive_location(c, "d1", UriFA)
       \/ restore_location(c, "d1", UriFA)
       \/ remove_location(c, "d1", UriFA)
       \/ delete_dataset(c, "d1")
       \/ delete_dataset_sources(c)
       \/ delete_dataset_row(c)
       \/ begin(c)
       \/ \E flag \in BOOLEAN :
            update_product(c, "ls8", DocB, 2, {"format", "label"}, [metadata |-> DocB], flag)
  \/ Tick

SpecOneWay == InitOneWay /\ [][NextOneWay]_vars

\* Inputs of update_metadata_type: names, one of which no type has, and definitions.
MetadataTypeNames == {"eo", "eo3", "nope"}
MetadataTypeDefinitions == {[search_fields |-> S] : S \in SearchFieldSets}

\* The store before any call.
InitMetadataType == Init

\* Products are updated, which may make them share a metadata type, and
\* metadata types are updated, on one connection.
NextMetadataType ==
  \E c \in {1} :
    \/ \E name \in {"ls8", "s2"}, metadata \in ProductDocs, metadata_type_id \in MetadataTypeIds :
         update_product(c, name, metadata, metadata_type_id, {"format", "label"},
                        [metadata |-> metadata], FALSE)
    \/ \E name \in MetadataTypeNames, definition \in MetadataTypeDefinitions :
         update_metadata_type(c, name, definition)

SpecMetadataType == InitMetadataType /\ [][NextMetadataType]_vars

\* Product documents some of whose values a field cannot read.
FieldDocs ==
  {[format |-> "GeoTIFF"],
   [format |-> "!KeyError", label |-> "x"],
   [format |-> "!ValueError"],
   [label |-> "!AttributeError"],
   [format |-> "GeoTIFF", label |-> "!TypeError"]}

\* The store before any call.
InitFields == Init

\* Products are given such documents, with one set of search fields or another,
\* and the metadata type they share is updated, on one connection.
NextFields ==
  \E c \in {1} :
    \/ \E name \in {"ls8", "s2"}, metadata \in FieldDocs, search_fields \in SearchFieldSets :
         update_product(c, name, metadata, 1, search_fields, [metadata |-> metadata], FALSE)
    \/ \E definition \in MetadataTypeDefinitions : update_metadata_type(c, "eo", definition)

SpecFields == InitFields /\ [][NextFields]_vars

\* Inputs of _join_tables: None, and tuples of fields in several orders and
\* multiplicities, on every relation of the fixed order and on one outside it.
JoinFieldTuples ==
  {None} \cup
  {Some(F) : F \in {<<>>, <<"id">>, <<"product">>, <<"uri">>, <<"metadata_type">>, <<"lineage">>,
                    <<"uri", "product">>, <<"product", "uri">>, <<"product", "product">>,
                    <<"metadata_type", "uri">>, <<"lineage", "product">>}}
JoinExpressionTuples ==
  {IF F.none THEN None
   ELSE Some([i \in 1..Len(F.items) |-> [field |-> F.items[i], value |-> "v"]]) :
     F \in JoinFieldTuples}

\* The store before any call.
InitJoin == Init

\* _join_tables is called with every pair of inputs.
NextJoin ==
  \E c \in {1} :
    \E E \in JoinExpressionTuples, F \in JoinFieldTuples : call_join_tables(c, E, F)

SpecJoin == InitJoin /\ [][NextJoin]_vars

\* The store before any call.
InitMigration == Init

\* Datasets are inserted and products moved between metadata types on one
\* connection, inside and outside transactions, with and without
\* update_metadata_type.
NextMigration ==
  \E c \in {1} :
    \/ \E d \in DatasetIds, p \in ProductIds : insert_dataset(c, d, p, DocA)
    \/ begin(c)
    \/ commit(c)
    \/ \E name \in ProductNames, metadata_type_id \in ProductIds, flag \in BOOLEAN :
         update_product(c, name, DocA, metadata_type_id, {"format", "label"},
                        [metadata |-> DocA], flag)

SpecMigration == InitMigration /\ [][NextMigration]_vars

\* The store before any call.
InitUpdate == Init

\* Datasets are inserted, and products and metadata types updated by names that
\* exist and by one that does not, inside and outside a transaction.
NextUpdate ==
  \E c \in {1} :
    \/ \E d \in DatasetIds : insert_dataset(c, d, 1, DocA)
    \/ begin(c)
    \/ \E name \in ProductNames, flag \in BOOLEAN :
         update_product(c, name, DocB, 2, {"format", "label"}, [metadata |-> DocB], flag)
    \/ \E name \in MetadataTypeNames, definition \in MetadataTypeDefinitions :
         update_metadata_type(c, name, definition)

SpecUpdate == InitUpdate /\ [][NextUpdate]_vars

\* The store holds both datasets.
InitIndependent == InitLocation

\* Datasets and the locations of d1 are archived and restored, and locations
\* removed, on one connection, the clock advancing between calls.
NextIndependent ==
  \/ \E c \in {1} :
       \/ \E d \in DatasetIds : archive_dataset(c, d)
       \/ \E d \in DatasetIds : restore_dataset(c, d)
       \/ \E uri \in {UriFA, UriFAB} :
            next_id <= MaxLocationId /\ insert_dataset_location(c, "d1", uri)
       \/ \E uri \in {UriFA, UriFAB} : archive_location(c, "d1", uri)
       \/ \E uri \in {UriFA, UriFAB} : restore_location(c, "d1", uri)
       \/ \E uri \in {UriFA, UriFAB} : remove_location(c, "d1", uri)
  \/ Tick

SpecIndependent == InitIndependent /\ [][NextIndependent]_vars

\* The store before any call.
InitUpdateDataset == Init

\* Datasets of both products are inserted, updated under either product, archived
\* and restored on one connection.
NextUpdateDataset ==
  \E c \in {1} :
    \/ \E d \in DatasetIds, p \in ProductIds : insert_dataset(c, d, p, DocA)
    \/ \E d \in DatasetIds, p \in ProductIds, doc \in Docs : update_dataset(c, d, p, doc)
    \/ \E d \in DatasetIds : archive_dataset(c, d)
    \/ \E d \in DatasetIds : restore_dataset(c, d)

SpecUpdateDataset == InitUpdateDataset /\ [][NextUpdateDataset]_vars

(***************************************************************************)
(* reproject_and_fuse (datacube/storage/_reproject.py). Arrays are         *)
(* functions from pixels to values; a value is a string, "nan" for NaN.    *)
(***************************************************************************)
\* np.isnan
isnan(v) == v = "nan"

\* destination.fill(dst_nodata), np.full(destination.shape, dst_nodata)
full(nodata) == [p \in Pixels |-> nodata]

\* The value source number i has where it has data.
pixel_value(i) == ToString(i)

\* read_time_slice(rdr, dst, ..): the source's valid pixels are written into dst,
\* the other pixels of dst are left as they are; it returns the region covered.
read_time_slice(i, dst) ==
  [dst |-> [p \in Pixels |-> IF p \in datasources[i].valid THEN pixel_value(i) ELSE dst[p]],
   roi |-> datasources[i].roi]

\* roi_is_empty
roi_is_empty(roi) == roi = {}

\* where_nodata = (dest == dst_nodata) if not np.isnan(dst_nodata) else np.isnan(dest);
\* NaN equals nothing, itself included.
where_nodata(v) ==
  IF ~isnan(dst_nodata) THEN ~isnan(v) /\ v = dst_nodata ELSE isnan(v)

\* A faulty fuser: the source is copied over whatever the destination holds.
copyto_fuser_unmasked(dest, src, roi) ==
  [p \in Pixels |-> IF p \in roi THEN src[p] ELSE dest[p]]

\* copyto_fuser(destination[roi], buffer_[roi]): np.copyto(dest, src, where=where_nodata)
copyto_fuser(dest, src, roi) ==
  [p \in Pixels |-> IF p \in roi /\ where_nodata(dest[p]) THEN src[p] ELSE dest[p]]

\* buffer_[roi] = dst_nodata
clean_up(buf, roi) == [p \in Pixels |-> IF p \in roi THEN dst_nodata ELSE buf[p]]

\* reproject_and_fuse up to the loop: the destination is filled with nodata; with
\* no source it is returned, with one source the source is read into it, with
\* several the buffer is allocated and the loop entered. A source that fails to
\* open raises, unless skip_broken_datasets.
reproject_and_fuse ==
  /\ position.pc = "called"
  /\ IF Len(datasources) = 0
     THEN /\ destination' = full(dst_nodata)
          /\ position' = [pc |-> "returned", i |-> 0]
          /\ UNCHANGED buffer_
     ELSE IF Len(datasources) = 1
     THEN /\ destination' = IF datasources[1].broken
                             THEN full(dst_nodata)
                             ELSE read_time_slice(1, full(dst_nodata)).dst
          /\ position' = [pc |-> IF datasources[1].broken /\ ~skip_broken_datasets
                                  THEN "raised" ELSE "returned",
                          i |-> 1]
          /\ UNCHANGED buffer_
     ELSE /\ destination' = full(dst_nodata)
          /\ buffer_' = full(dst_nodata)
          /\ position' = [pc |-> "loop", i |-> 1]
  /\ UNCHANGED <<dataset, location, source, product, metadata_type, clock, next_id, conn,
                 in_transaction, builder, executed, datasources, dst_nodata,
                 skip_broken_datasets>>

\* One turn of for source in datasources: the source is read into the buffer and,
\* if its region is not empty, fused into the destination and the region of the
\* buffer cleaned; after the last source the destination is returned.
fuse_source ==
  /\ position.pc = "loop"
  /\ LET i == position.i
         next == IF i = Len(datasources)
                 THEN [pc |-> "returned", i |-> i]
                 ELSE [pc |-> "loop", i |-> i + 1] IN
     IF datasources[i].broken
     THEN /\ position' = IF skip_broken_datasets THEN next ELSE [pc |-> "raised", i |-> i]
          /\ UNCHANGED <<destination, buffer_>>
     ELSE LET r == read_time_slice(i, buffer_) IN
          /\ IF ~roi_is_empty(r.roi)
             THEN /\ destination' = copyto_fuser(destination, r.dst, r.roi)
                  /\ buffer_' = clean_up(r.dst, r.roi)
             ELSE /\ buffer_' = r.dst
                  /\ UNCHANGED destination
          /\ position' = next
  /\ UNCHANGED <<dataset, location, source, product, metadata_type, clock, next_id, conn,
                 in_transaction, builder, executed, datasources, dst_nodata,
                 skip_broken_datasets>>

\* reproject_and_fuse has been called with a list of sources, a nodata value and
\* a destination array that holds what the caller left in it.
InitFuse ==
  /\ dataset = <<>>
  /\ location = {}
  /\ source = {}
  /\ product = ProductTable
  /\ metadata_type = MetadataTypeTable
  /\ clock = 0
  /\ next_id = 1
  /\ conn = [c \in Connections |-> Idle("none", "none")]
  /\ in_transaction = [c \in Connections |-> FALSE]
  /\ builder = <<>>
  /\ executed = <<>>
  /\ datasources \in DataSourceLists
  /\ dst_nodata \in NodataValues
  /\ skip_broken_datasets \in BOOLEAN
  /\ destination = [p \in Pixels |-> "7"]
  /\ buffer_ = <<>>
  /\ position = [pc |-> "called", i |-> 0]

NextFuse == reproject_and_fuse \/ fuse_source

SpecFuse == InitFuse /\ [][NextFuse]_vars

\* Dataset d satisfies the expressions: it is not archived and every expression
\* holds of it, an expression on uri of one of its locations.
satisfies(d, expressions) ==
  /\ d \in active
  /\ \A i \in 1..Len(expressions) :
       LET e == expressions[i] IN
       CASE e.field = "id" -> d = e.value
         [] e.field = "product" -> product[dataset[d].product_ref].name = e.value
         [] e.field = "uri" ->
              \E l \in location : l.dataset_ref = d /\ location_uri(l) = e.value
         [] OTHER -> /\ e.field \in DOMAIN dataset[d].metadata_doc
                     /\ dataset[d].metadata_doc[e.field] = e.value

\* Some instant of the dataset's time range lies in the bucket [lo, hi).
time_in_bucket(d, lo, hi) ==
  \E t \in dataset[d].metadata_doc.time[1]..dataset[d].metadata_doc.time[2] :
    lo <= t /\ t < hi

\* C17: in every state, for all expressions and every start, end and period with
\* end - start = k * period, count_datasets_through_time yields exactly k buckets,
\* the i-th being [start + (i-1)*period, start + i*period) (so none with an
\* infinite upper bound), and its count is the number of non-archived datasets
\* that satisfy the expressions and whose time overlaps the bucket.
C17_HistogramBucketsAndCounts ==
  \A E \in ExpressionTuples, h \in PeriodInputs :
    (h[2] - h[1]) % h[3] = 0 =>
      LET k == (h[2] - h[1]) \div h[3]
          res == count_datasets_through_time(h[1], h[2], h[3], E) IN
      /\ Len(res) = k
      /\ \A i \in 1..k :
           LET lo == h[1] + (i - 1) * h[3]
               hi == h[1] + i * h[3] IN
           /\ res[i][1] = <<lo, hi>>
           /\ res[i][2] = Cardinality({d \in DOMAIN dataset :
                                         satisfies(d, E) /\ time_in_bucket(d, lo, hi)})

\* A dataset with a location is counted in the first of three buckets while an
\* archived dataset whose time lies in the same bucket is not.
C17_Witness ==
  /\ count_datasets_through_time(0, 3, 1, <<[field |-> "uri", value |-> UriFA]>>)[1][2] = 1
  /\ \E d \in DOMAIN dataset \ active : time_in_bucket(d, 0, 1)

\* The histogram call the connection has just executed, if any.
histogram_called ==
  conn[1].op = "count_datasets_through_time" /\ executed # <<>>

\* The buckets the executed histogram query returns.
buckets_returned ==
  LET q == executed[1]
      res == count_datasets_through_time(q.start, q.end, q.period, q.expressions)
  IN [i \in 1..Len(res) |-> res[i][1]]

\* The buckets are half-open intervals [lo, hi) with lo < hi, each beginning where
\* the one before ends (so they are pairwise disjoint), and none reaches outside
\* [start, end).
buckets_contiguous_within(buckets, start, end) ==
  /\ \A i \in 1..Len(buckets) :
       /\ buckets[i][1] < buckets[i][2]
       /\ start <= buckets[i][1] /\ buckets[i][2] <= end
  /\ \A i \in 1..(Len(buckets) - 1) : buckets[i][2] = buckets[i + 1][1]
  /\ \A i, j \in 1..Len(buckets) :
       i # j => ~\E t \in start..end :
                  /\ buckets[i][1] <= t /\ t < buckets[i][2]
                  /\ buckets[j][1] <= t /\ t < buckets[j][2]

\* Every instant of [lo, hi) lies in one of the buckets.
buckets_cover(buckets, lo, hi) ==
  \A t \in lo..(hi - 1) :
    \E i \in 1..Len(buckets) : buckets[i][1] <= t /\ t < buckets[i][2]

\* C18 as claimed: after any histogram call with start < end, whether or not the
\* period divides end - start, the buckets returned are contiguous, half-open and
\* pairwise disjoint and their union is exactly [start, end).
C18_BucketsCoverRange ==
  (histogram_called /\ executed[1].start < executed[1].end) =>
    /\ buckets_contiguous_within(buckets_returned, executed[1].start, executed[1].end)
    /\ buckets_cover(buckets_returned, executed[1].start, executed[1].end)

\* C18, amended: after any histogram call with start < end the buckets returned
\* are contiguous, half-open and pairwise disjoint, none reaches outside
\* [start, end), and their union is exactly [start, start + k * period) for
\* k the whole number of periods in end - start: the remainder
\* [start + k * period, end) is covered by no bucket, and is empty exactly when
\* the period divides end - start.
C18_BucketsCoverWholePeriods ==
  (histogram_called /\ executed[1].start < executed[1].end) =>
    LET q == executed[1]
        k == (q.end - q.start) \div q.period
        upto == q.start + k * q.period IN
    /\ buckets_contiguous_within(buckets_returned, q.start, q.end)
    /\ Len(buckets_returned) = k
    /\ buckets_cover(buckets_returned, q.start, upto)
    /\ \A t \in upto..(q.end - 1) :
         ~\E i \in 1..Len(buckets_returned) :
            buckets_returned[i][1] <= t /\ t < buckets_returned[i][2]
    /\ (upto = q.end) = ((q.end - q.start) % q.period = 0)

\* The histogram of [0, 3) by period 2 has just been returned, and an active
\* dataset has its time in the remainder [2, 3).
C18_Witness ==
  /\ histogram_called
  /\ executed[1].start = 0 /\ executed[1].end = 3 /\ executed[1].period = 2
  /\ \E d \in active : time_in_bucket(d, 2, 3)

\* The rows of non-archived dataset d that satisfy the expressions: one per
\* location of d when a match field or an expression is on uri, else one.
rows_of(d, match_fields, expressions) ==
  LET fields == {match_fields[i] : i \in 1..Len(match_fields)}
                \cup {expressions[i].field : i \in 1..Len(expressions)}
      ls == IF "uri" \in fields THEN {x.id : x \in {y \in location : y.dataset_ref = d}}
            ELSE {0} IN
  IF d \notin active THEN {}
  ELSE {r \in {[d |-> d, l |-> l, p |-> dataset[d].product_ref] : l \in ls} :
          \A i \in 1..Len(expressions) : expression_holds(expressions[i], r)}

\* The tuples of match-field values dataset d holds.
tuples_of(d, match_fields, expressions) ==
  {group_key(match_fields, r) : r \in rows_of(d, match_fields, expressions)}

\* The datasets that hold the tuple k.
holders(k, match_fields, expressions) ==
  {d \in DOMAIN dataset : k \in tuples_of(d, match_fields, expressions)}

\* One row per tuple held by more than one dataset, with all and only the ids of
\* its holders, each once; no row for any other tuple.
groups_exact(match_fields, expressions) ==
  LET dup == get_duplicates(match_fields, expressions) IN
  /\ \A x \in dup :
       LET h == holders(x.key, match_fields, expressions) IN
       /\ Cardinality(h) > 1
       /\ row_ids(x.rows) = h
       /\ Cardinality(x.rows) = Cardinality(h)
       /\ \A y \in dup : y.key = x.key => y = x
  /\ \A d \in DOMAIN dataset : \A k \in tuples_of(d, match_fields, expressions) :
       Cardinality(holders(k, match_fields, expressions)) > 1 => \E x \in dup : x.key = k

\* No dataset id is in two groups.
groups_disjoint(match_fields, expressions) ==
  \A x, y \in get_duplicates(match_fields, expressions) :
    x # y => row_ids(x.rows) \cap row_ids(y.rows) = {}

\* C19 as claimed: in every state, for all match fields and expressions,
\* get_duplicates returns exactly one row per tuple of match-field values shared
\* by more than one non-archived dataset satisfying the expressions, carrying all
\* and only their ids, no row for a tuple held by a single dataset, and every
\* dataset id in at most one group.
C19_DuplicateGroups ==
  \A F \in FieldTuples, E \in ExpressionTuples :
    groups_exact(F, E) /\ groups_disjoint(F, E)

\* C19, amended: as claimed, but a dataset id is in at most one group only
\* when no match field is a field of the Location relation (uri): a dataset with
\* several locations is in the group of every uri it shares with another dataset.
C19_DuplicateGroupsPerTuple ==
  \A F \in FieldTuples, E \in ExpressionTuples :
    /\ groups_exact(F, E)
    /\ (\A i \in 1..Len(F) : F[i] # "uri") => groups_disjoint(F, E)

\* Two datasets share two uris, so that matching on uri yields two groups, and
\* they share their format while one of them alone has a label.
C19_Witness ==
  /\ Cardinality(get_duplicates(<<"uri">>, <<>>)) = 2
  /\ Cardinality(get_duplicates(<<"format">>, <<>>)) = 1
  /\ Cardinality(active) = 2

\* C20: in every state and for every tuple of expressions, on fields of the
\* Product and Location relations included, count_datasets equals the number of
\* rows search_datasets returns with no limit and the default projection.
C20_CountEqualsSearch ==
  \A E \in ExpressionTuples :
    \A rows \in search_datasets(E, <<>>, <<>>) : count_datasets(E) = Cardinality(rows)

\* C21: insert_dataset_location(d, uri), for a URI and an existing dataset, returns
\* true exactly when no location row, active or archived, has the key (d, scheme,
\* body), and insert_dataset_source(cl, d, s), for existing datasets, exactly when
\* no edge has (cl, d), whatever its source; a call whose key exists returns false
\* without raising and changes no table (the archived location stays archived,
\* the edge keeps its source); a call that returns true adds the one row.
C21_InsertIfAbsent ==
  [][/\ \A d \in DatasetIds, uri \in Uris :
          insert_dataset_location(1, d, uri) =>
            LET exists == has_scheme(uri) /\ location_key(d, uri) # {} IN
            /\ (conn'[1].ret = "false") = exists
            /\ (conn'[1].ret = "true") =
                 (has_scheme(uri) /\ ~exists /\ d \in DOMAIN dataset)
            /\ conn'[1].ret = "false" => location' = location
            /\ conn'[1].ret = "true" =>
                 /\ location \subseteq location'
                 /\ Cardinality(location' \ location) = 1
                 /\ \A l \in location' \ location :
                      l.dataset_ref = d /\ location_uri(l) = uri /\ l.archived = NULL
            /\ UNCHANGED <<dataset, source>>
     /\ \A cl \in Classifiers, d \in DatasetIds, s \in DatasetIds :
          insert_dataset_source(1, cl, d, s) =>
            LET exists == \E e \in source : e.classifier = cl /\ e.dataset_ref = d IN
            /\ (conn'[1].ret = "false") = exists
            /\ (conn'[1].ret = "true") =
                 (~exists /\ d \in DOMAIN dataset /\ s \in DOMAIN dataset)
            /\ conn'[1].ret = "false" => source' = source
            /\ conn'[1].ret = "true" =>
                 source' = source \cup {[classifier |-> cl, dataset_ref |-> d,
                                         source_dataset_ref |-> s]}
            /\ UNCHANGED <<dataset, location>>]_vars

\* insert_dataset_location has just returned false; every location is archived
\* and a lineage edge exists.
C21_Witness ==
  /\ conn[1].op = "insert_dataset_location"
  /\ conn[1].ret = "false"
  /\ location # {}
  /\ \A l \in location : l.archived # NULL
  /\ source # {}

\* C22: in every step a dataset whose archived field is set keeps its row's
\* archived timestamp, and a location whose archived field is set keeps it,
\* unless the step is the restore of that dataset or location, or deletes the
\* row (delete_dataset's statements, remove_location): archive calls on it,
\* inserts with its key, update_dataset and update_product leave the timestamp.
C22_ArchivedKeptUntilRestored ==
  [][/\ \A d \in DOMAIN dataset :
          dataset[d].archived # NULL =>
            \/ d \in DOMAIN dataset' /\ dataset'[d].archived = dataset[d].archived
            \/ restore_dataset(1, d)
            \/ delete_dataset_row(1) /\ conn[1].d = d
     /\ \A l \in location :
          l.archived # NULL =>
            \/ \E k \in location' : k.id = l.id /\ k.archived = l.archived
            \/ restore_location(1, l.dataset_ref, location_uri(l))
            \/ remove_location(1, l.dataset_ref, location_uri(l))
            \/ delete_dataset(1, l.dataset_ref)]_vars

\* After the clock has advanced, an archive call has just returned false on the
\* dataset archived before, whose location is archived too, and the product has
\* been updated with its datasets re-pointed.
C22_Witness ==
  /\ conn[1].op = "archive_dataset"
  /\ conn[1].ret = "false"
  /\ clock > 0
  /\ "d1" \in DOMAIN dataset
  /\ dataset["d1"].archived = <<0>>
  /\ dataset["d1"].metadata_type_ref = 2
  /\ \E l \in location : l.archived = <<0>>

\* C23: with a clock that never goes back, in every state reached by
\* insert_dataset_location, archive_location, restore_location and
\* remove_location each location whose archived timestamp is set has
\* archived >= added.
C23_ArchivedNotBeforeAdded ==
  \A l \in location : l.archived # NULL => l.archived[1] >= l.added

\* One location was archived after the clock advanced past its insertion, and
\* another, inserted after the clock advanced, at the reading it was added.
C23_Witness ==
  /\ \E l \in location : l.archived # NULL /\ l.archived[1] > l.added
  /\ \E l \in location : l.added > 0 /\ l.archived = <<l.added>>

yields_value(f, metadata_doc) ==
  /\ f \in DOMAIN metadata_doc
  /\ metadata_doc[f] \notin {"!AttributeError", "!KeyError", "!ValueError", "!TypeError"}

\* C25: whenever update_product or update_metadata_type reaches the builder for
\* a product, the call does not fail, whatever makes an extraction fail, and the
\* field names handed over are exactly the fields with an extract capability
\* whose extraction from the product's document yields a value.
C25_ExtractionFailureIsNoValue ==
  [][/\ \A name \in {"ls8", "s2"}, metadata \in FieldDocs, search_fields \in SearchFieldSets :
          update_product(1, name, metadata, 1, search_fields, [metadata |-> metadata], FALSE) =>
            /\ conn'[1].ret \in {ToString(p) : p \in DOMAIN product}
            /\ Len(builder') = 1
            /\ builder'[1].excluded_field_names =
                 {f \in search_fields : f # "id" /\ yields_value(f, metadata)}
     /\ \A definition \in MetadataTypeDefinitions :
          update_metadata_type(1, "eo", definition) =>
            /\ conn'[1].ret = "1"
            /\ \A p \in DOMAIN product :
                 product[p].metadata_type_ref = 1 =>
                   \E i \in 1..Len(builder') :
                     /\ builder'[i].name = product[p].name
                     /\ builder'[i].excluded_field_names =
                          {f \in definition.search_fields :
                             f # "id" /\ yields_value(f, product[p].definition.metadata)}]_vars

\* The fields the expressions filter on and the select fields.
fields_of(expressions, select_fields) ==
  {expressions[i].field : i \in 1..Len(expressions)}
    \cup {select_fields[i] : i \in 1..Len(select_fields)}

\* The pairs of a non-archived dataset and one of its location rows (archived or
\* not) on which every expression holds.
location_pairs(expressions) ==
  {pr \in {<<d, l>> : d \in active, l \in location} :
     /\ pr[2].dataset_ref = pr[1]
     /\ \A i \in 1..Len(expressions) :
          LET e == expressions[i] IN
          CASE e.field = "id" -> pr[1] = e.value
            [] e.field = "product" -> product[dataset[pr[1]].product_ref].name = e.value
            [] e.field = "uri" -> location_uri(pr[2]) = e.value
            [] OTHER -> /\ e.field \in DOMAIN dataset[pr[1]].metadata_doc
                        /\ dataset[pr[1]].metadata_doc[e.field] = e.value}

\* C26: in every state, when search_datasets selects or filters on uri its rows
\* are exactly the pairs of a non-archived dataset and a location row of it that
\* pass the filter, one row per pair; so with no expression on uri a dataset
\* that satisfies the expressions and has n locations yields n rows, and a
\* dataset with no location yields no row.
C26_OneRowPerLocation ==
  \A E \in ExpressionTuples, F \in FieldTuples :
    "uri" \in fields_of(E, F) =>
      LET rows == search_datasets_query(E, F) IN
      /\ \A r \in rows : \E pr \in location_pairs(E) : r.d = pr[1] /\ r.l = pr[2].id
      /\ \A pr \in location_pairs(E) :
           Cardinality({r \in rows : r.d = pr[1] /\ r.l = pr[2].id}) = 1
      /\ Cardinality(rows) = Cardinality(location_pairs(E))
      /\ ("uri" \notin fields_of(E, <<>>)) =>
           \A d \in DOMAIN dataset :
             Cardinality({r \in rows : r.d = d}) =
               IF satisfies(d, E)
               THEN Cardinality({l \in location : l.dataset_ref = d})
               ELSE 0

\* Two datasets are active; one has two locations and so two rows when uri is
\* selected, the other has no location and no row.
C26_Witness ==
  /\ Cardinality(active) = 2
  /\ Cardinality(location) = 2
  /\ Cardinality(search_datasets_query(<<>>, <<"uri">>)) = 2
  /\ Cardinality(row_ids(search_datasets_query(<<>>, <<"uri">>))) = 1

\* C27: in every state, for every dataset search_datasets returns with the default
\* projection, the uris that come with it are get_locations(d) in that state:
\* the uris of exactly the dataset's non-archived locations, a location added
\* later before one added earlier and, of two added together, the higher id first.
C27_UrisAreGetLocations ==
  \A E \in {<<>>, <<[field |-> "uri", value |-> UriFA]>>} :
    \A r \in search_datasets_query(E, <<>>) :
      LET uris == dataset_select_fields(r.d).uris
          own == {l \in location : l.dataset_ref = r.d /\ l.archived = NULL}
          row(u) == CHOOSE l \in own : location_uri(l) = u IN
      /\ uris = get_locations(r.d)
      /\ {uris[i] : i \in 1..Len(uris)} = {location_uri(l) : l \in own}
      /\ Len(uris) = Cardinality(own)
      /\ \A i, j \in 1..Len(uris) :
           i < j => \/ row(uris[i]).added > row(uris[j]).added
                    \/ /\ row(uris[i]).added = row(uris[j]).added
                       /\ row(uris[i]).id > row(uris[j]).id

\* A dataset has two non-archived locations added at different readings of the
\* clock.
C27_Witness ==
  \E d \in active :
    /\ Len(dataset_select_fields(d).uris) = 2
    /\ \E a, b \in location :
         /\ a.dataset_ref = d /\ b.dataset_ref = d
         /\ a.archived = NULL /\ b.archived = NULL
         /\ a.added < b.added

\* The relations the inputs of _join_tables require.
required_relations(expressions, fields) ==
  {required_alchemy_table(expressions.items[i].field) : i \in 1..Len(expressions.items)}
    \cup {required_alchemy_table(fields.items[i]) : i \in 1..Len(fields.items)}

\* The relations of the fixed precedence and the place of each in it.
KnownRelations == {"dataset_location", "dataset", "product", "metadata_type"}
precedence(t) ==
  CASE t = "dataset_location" -> 1
    [] t = "dataset" -> 2
    [] t = "product" -> 3
    [] t = "metadata_type" -> 4

\* _join_tables has just been called.
join_tables_called == conn[1].op = "_join_tables" /\ executed # <<>>

\* C28: after any call of _join_tables the list returned has no duplicates and
\* follows the precedence Location, Dataset, Product, MetadataType; when the
\* relations required are among those four, its elements are exactly the required
\* relations without the anchor Dataset; it is the list returned for any other
\* inputs that require the same set of relations, whatever their order and
\* multiplicity; and it is empty when both inputs are empty or None.
C28_JoinTablesFixedOrder ==
  join_tables_called =>
    LET q == executed[1]
        res == q.join_tables
        req == required_relations(q.expressions, q.fields) IN
    /\ \A i, j \in 1..Len(res) : i < j => precedence(res[i]) < precedence(res[j])
    /\ req \subseteq KnownRelations => {res[i] : i \in 1..Len(res)} = req \ {"dataset"}
    /\ \A E \in JoinExpressionTuples, F \in JoinFieldTuples :
         required_relations(E, F) = req => join_tables(items_of(E), items_of(F)) = res
    /\ (q.expressions \in {None, Some(<<>>)} /\ q.fields \in {None, Some(<<>>)}) => res = <<>>

\* _join_tables has just returned Location before Product for an expression on
\* product and the selected fields product, uri.
C28_Witness ==
  /\ join_tables_called
  /\ executed[1].expressions = Some(<<[field |-> "product", value |-> "v"]>>)
  /\ executed[1].fields = Some(<<"product", "uri">>)
  /\ executed[1].join_tables = <<"dataset_location", "product">>

\* C29: insert_dataset gives the new dataset the metadata_type_ref its product has
\* at that moment; update_product with update_metadata_type = True in a transaction
\* leaves every dataset of the named product with the product's new
\* metadata_type_ref, changes nothing else in them and leaves the datasets of other
\* products as they were; with update_metadata_type = False no dataset row changes.
C29_MetadataTypeRefFollowsProduct ==
  [][/\ \A d \in DatasetIds, p \in ProductIds :
         insert_dataset(1, d, p, DocA) /\ d \notin DOMAIN dataset =>
           /\ d \in DOMAIN dataset'
           /\ dataset'[d].product_ref = p
           /\ dataset'[d].metadata_type_ref = product[p].metadata_type_ref
     /\ \A name \in ProductNames, metadata \in {DocA}, metadata_type_id \in ProductIds,
           search_fields \in {{"format", "label"}} :
         /\ (/\ update_product(1, name, metadata, metadata_type_id, search_fields,
                               [metadata |-> metadata], TRUE)
             /\ in_transaction[1]) =>
              \A p \in DOMAIN product : product[p].name = name =>
                /\ product'[p].metadata_type_ref = metadata_type_id
                /\ DOMAIN dataset' = DOMAIN dataset
                /\ \A d \in DOMAIN dataset :
                     IF dataset[d].product_ref = p
                     THEN dataset'[d] = [dataset[d] EXCEPT
                                           !.metadata_type_ref = product'[p].metadata_type_ref]
                     ELSE dataset'[d] = dataset[d]
         /\ update_product(1, name, metadata, metadata_type_id, search_fields,
                           [metadata |-> metadata], FALSE) =>
              dataset' = dataset]_vars

\* update_product has just moved the product of d1 to another metadata type inside
\* a transaction, and d1 with it, while d2 still has the metadata type its product
\* had before an update without update_metadata_type.
C29_Witness ==
  /\ conn[1].op = "update_product"
  /\ conn[1].ret = "1"
  /\ in_transaction[1]
  /\ {"d1", "d2"} \subseteq DOMAIN dataset
  /\ dataset["d1"].product_ref = 1
  /\ product[1].metadata_type_ref = 2
  /\ dataset["d1"].metadata_type_ref = 2
  /\ dataset["d2"].product_ref = 2
  /\ product[2].metadata_type_ref = 1
  /\ dataset["d2"].metadata_type_ref = 2

\* C30 as claimed: every relation required by an expression or a selected field,
\* other than the anchor, is in the list _join_tables returns, relations outside
\* the precedence list included.
C30_EveryRequiredRelationJoined ==
  join_tables_called =>
    LET q == executed[1] IN
    required_relations(q.expressions, q.fields) \ {"dataset"} \subseteq seq_set(q.join_tables)

\* C30: every relation of the precedence list required by an expression or a
\* selected field, other than the anchor, is in the list _join_tables returns;
\* a required relation outside the precedence list is not in it.
C30_RequiredKnownRelationsJoined ==
  join_tables_called =>
    LET q == executed[1]
        req == required_relations(q.expressions, q.fields) IN
    /\ (req \cap KnownRelations) \ {"dataset"} \subseteq seq_set(q.join_tables)
    /\ \A t \in req \ KnownRelations : t \notin seq_set(q.join_tables)

\* _join_tables was called with a selected field of the lineage relation and one of
\* the product relation: the list it returned has the product relation only.
C30_Witness ==
  /\ join_tables_called
  /\ executed[1].fields = Some(<<"lineage", "product">>)
  /\ "dataset_source" \in required_relations(executed[1].expressions, executed[1].fields)
  /\ executed[1].join_tables = <<"product">>

\* C31: update_product or update_metadata_type called with a name no row has
\* changes no row of any table and does not invoke the index/view builder.
C31_UnknownNameChangesNothing ==
  [][/\ \A name \in ProductNames, flag \in BOOLEAN :
         (/\ update_product(1, name, DocB, 2, {"format", "label"}, [metadata |-> DocB], flag)
          /\ \A p \in DOMAIN product : product[p].name # name) =>
           /\ <<dataset, location, source, product, metadata_type>>'
                = <<dataset, location, source, product, metadata_type>>
           /\ builder' = <<>>
     /\ \A name \in MetadataTypeNames, definition \in MetadataTypeDefinitions :
         (/\ update_metadata_type(1, name, definition)
          /\ \A t \in DOMAIN metadata_type : metadata_type[t].name # name) =>
           /\ <<dataset, location, source, product, metadata_type>>'
                = <<dataset, location, source, product, metadata_type>>
           /\ builder' = <<>>]_vars

\* update_product has just failed on a name no product has, inside a transaction,
\* in a store whose products were updated before and that holds datasets; the
\* builder was not invoked.
C31_Witness ==
  /\ conn[1].op = "update_product"
  /\ conn[1].ret = "TypeError"
  /\ in_transaction[1]
  /\ builder = <<>>
  /\ DOMAIN dataset = DatasetIds
  /\ \A p \in DOMAIN product : product[p].name # "nope" /\ product[p].metadata = DocB

\* C32: archive_dataset(d) and restore_dataset(d) leave every location row as it
\* was, so get_locations and get_archived_locations give the same results after
\* the call as before it; archive_location, restore_location and remove_location
\* leave the archived field of every dataset row as it was.
C32_ArchiveStatesIndependent ==
  [][/\ \A d \in DatasetIds :
         archive_dataset(1, d) \/ restore_dataset(1, d) =>
           /\ location' = location
           /\ \A x \in DatasetIds :
                /\ get_locations(x)' = get_locations(x)
                /\ get_archived_locations(x)' = get_archived_locations(x)
     /\ \A d \in DatasetIds, uri \in Uris :
         (\/ archive_location(1, d, uri)
          \/ restore_location(1, d, uri)
          \/ remove_location(1, d, uri)) =>
           /\ DOMAIN dataset' = DOMAIN dataset
           /\ \A x \in DOMAIN dataset : dataset'[x].archived = dataset[x].archived]_vars

\* archive_dataset has just archived d1, which has an active location and one
\* archived earlier: both are as they were.
C32_Witness ==
  /\ conn[1].op = "archive_dataset"
  /\ conn[1].ret = "true"
  /\ dataset["d1"].archived # NULL
  /\ get_locations("d1") # <<>>
  /\ \E l \in location : /\ l.dataset_ref = "d1"
                          /\ l.archived # NULL
                          /\ l.archived # dataset["d1"].archived

\* C33: update_dataset(doc, d, p) replaces the metadata document of the row whose
\* id is d and whose product_ref is p and returns true; when no row has the id, or
\* the row is of another product, it returns false and changes nothing; in every
\* case the row's other fields, all other dataset rows and all other tables are
\* as they were.
C33_UpdateDatasetFrame ==
  [][\A d \in DatasetIds, p \in ProductIds, doc \in Docs :
       update_dataset(1, d, p, doc) =>
         LET hit == d \in DOMAIN dataset /\ dataset[d].product_ref = p IN
         /\ conn'[1].ret = Bool(hit)
         /\ DOMAIN dataset' = DOMAIN dataset
         /\ hit => dataset'[d] = [dataset[d] EXCEPT !.metadata_doc = doc]
         /\ ~hit => dataset' = dataset
         /\ \A x \in DOMAIN dataset :
              /\ x # d => dataset'[x] = dataset[x]
              /\ dataset'[x].product_ref = dataset[x].product_ref
              /\ dataset'[x].metadata_type_ref = dataset[x].metadata_type_ref
              /\ dataset'[x].archived = dataset[x].archived
         /\ <<location, source, product, metadata_type>>'
              = <<location, source, product, metadata_type>>]_vars

\* update_dataset has just replaced the document of the archived dataset d1 of
\* product 2, while d2 of product 1 keeps its own.
C33_Witness ==
  /\ conn[1].op = "update_dataset"
  /\ conn[1].ret = "true"
  /\ {"d1", "d2"} \subseteq DOMAIN dataset
  /\ dataset["d1"].product_ref = 2
  /\ dataset["d1"].archived # NULL
  /\ dataset["d1"].metadata_doc = DocB
  /\ dataset["d2"].product_ref = 1
  /\ dataset["d2"].metadata_doc = DocA

\* The sources among the first n that open and have data at pixel p.
sources_with_data(p, n) ==
  {i \in 1..n : ~datasources[i].broken /\ p \in datasources[i].valid}

\* What fusing the first n sources leaves at pixel p: the value of the first of
\* them with data there, nodata if none has.
fused(p, n) ==
  IF sources_with_data(p, n) = {}
  THEN dst_nodata
  ELSE pixel_value(CHOOSE i \in sources_with_data(p, n) :
                     \A j \in sources_with_data(p, n) : i <= j)

\* C34: reproject_and_fuse with the default fuser returns a destination that is
\* all nodata when there is no source, and otherwise holds at each pixel the value
\* of the first source in list order that has data there, nodata where none has;
\* in the loop over several sources the destination holds just that for the
\* sources fused so far, and the buffer is all nodata before each source is read.
C34_FirstSourceWithDataWins ==
  /\ position.pc = "returned" =>
       /\ \A p \in Pixels : destination[p] = fused(p, Len(datasources))
       /\ Len(datasources) = 0 => destination = full(dst_nodata)
  /\ position.pc = "loop" =>
       /\ buffer_ = full(dst_nodata)
       /\ \A p \in Pixels : destination[p] = fused(p, position.i - 1)
  /\ position.pc = "raised" =>
       ~skip_broken_datasets /\ datasources[position.i].broken

\* Three sources were fused with NaN as nodata: at p1 the first had no data and
\* the second and third had, at p2 only the third had.
C34_Witness ==
  /\ position.pc = "returned"
  /\ Len(datasources) = 3
  /\ isnan(dst_nodata)
  /\ datasources[1].roi = Pixels /\ datasources[1].valid = {}
  /\ datasources[2].valid = {"p1"}
  /\ datasources[3].valid = Pixels
  /\ destination = [p \in Pixels |-> IF p = "p1" THEN "2" ELSE "3"]
====
